---- MODULE Spec2Model ----
(***************************************************************************)
(* Model of the access-controlled caching proxy of                         *)
(* engenharia/2-design-patterns/estruturais/code_tests/proxy.py:           *)
(* UserPermissions, QueryCache, AuditLogger, MetricsCollector,             *)
(* RealDatabaseService and DatabaseProxy.                                  *)
(*                                                                         *)
(* A `with self._lock:` block is one atomic action.  Every other statement *)
(* of a proxy method that reads or writes shared state is a step of the    *)
(* calling thread, so that the calls of several threads interleave.        *)
(* Query texts are sequences of one-character strings and lower(), upper(),*)
(* strip(), startswith() and `in` are computed on the characters.          *)
(* datetime.now() reads the logical clock `now`; the clock may advance     *)
(* between two reads.  md5 is taken to be injective: the cache key is the  *)
(* canonical text itself.                                                  *)
(***************************************************************************)
EXTENDS Integers, Sequences, FiniteSets, TLC

\* ------------------------------------------------------------------ bounds
\* QueryCache.max_size of the modelled cache (the proxy passes 50).
max_size == 2
\* QueryCache.ttl_seconds of the modelled cache (the proxy passes 300).
ttl_seconds == 1
\* Last value of the logical clock.
MaxTime == 1
\* Number of threads calling the proxy.
NumThreads == 2
\* Number of proxy calls a behaviour issues.
MaxCalls == 3
\* Number of proxy calls a behaviour issues once a second thread calls.
MaxConcurrentCalls == 2

\* ------------------------------------------------------------- query texts
Q_SELECT_USERS == <<"S", "E", "L", "E", "C", "T", " ", "u", "s", "e", "r", "s">>
Q_select_users_sp == <<"s", "e", "l", "e", "c", "t", " ", "u", "s", "e", "r", "s", " ">>
Q_sp_Select_Users_tab == <<" ", "S", "e", "l", "e", "c", "t", " ", "U", "s", "e", "r", "s", "\t">>
Q_SELECT_PRODUCTS == <<"S", "E", "L", "E", "C", "T", " ", "p", "r", "o", "d", "u", "c", "t", "s">>
Q_SELECT_X == <<"S", "E", "L", "E", "C", "T", " ", "x">>
Q_UPDATE_USERS == <<"U", "P", "D", "A", "T", "E", " ", "u", "s", "e", "r", "s">>

\* More texts for the permission check: a leading blank, lower case, every
\* recognised keyword and one that is not recognised.
Q_sp_SELECT_X == <<" ", "S", "E", "L", "E", "C", "T", " ", "x">>
Q_insert_x == <<"i", "n", "s", "e", "r", "t", " ", "x">>
Q_DELETE_X == <<"D", "E", "L", "E", "T", "E", " ", "x">>
Q_CREATE_X == <<"C", "R", "E", "A", "T", "E", " ", "x">>
Q_Alter_x == <<"A", "l", "t", "e", "r", " ", "x">>
Q_DROP_X == <<"D", "R", "O", "P", " ", "x">>
Q_TRUNCATE_X == <<"T", "R", "U", "N", "C", "A", "T", "E", " ", "x">>

\* The texts passed to UserPermissions.has_permission directly.
PermissionTexts == {Q_SELECT_USERS, Q_select_users_sp, Q_UPDATE_USERS, Q_sp_SELECT_X,
                    Q_insert_x, Q_DELETE_X, Q_CREATE_X, Q_Alter_x, Q_DROP_X,
                    Q_TRUNCATE_X}

\* The texts the callers of the proxy pass.
Queries == {Q_SELECT_USERS, Q_select_users_sp, Q_UPDATE_USERS}

\* The texts the direct callers of a QueryCache pass.
CacheQueries == {Q_SELECT_USERS, Q_sp_Select_Users_tab, Q_SELECT_PRODUCTS, Q_SELECT_X}

UpperLetters == <<"A", "B", "C", "D", "E", "F", "G", "H", "I", "J", "K", "L", "M",
                  "N", "O", "P", "Q", "R", "S", "T", "U", "V", "W", "X", "Y", "Z">>
LowerLetters == <<"a", "b", "c", "d", "e", "f", "g", "h", "i", "j", "k", "l", "m",
                  "n", "o", "p", "q", "r", "s", "t", "u", "v", "w", "x", "y", "z">>
Whitespace == {" ", "\t", "\n", "\r"}

\* str.lower()
lower(s) ==
    [i \in 1..Len(s) |->
        IF \E j \in 1..26 : UpperLetters[j] = s[i]
        THEN LowerLetters[CHOOSE j \in 1..26 : UpperLetters[j] = s[i]]
        ELSE s[i]]

\* str.upper()
upper(s) ==
    [i \in 1..Len(s) |->
        IF \E j \in 1..26 : LowerLetters[j] = s[i]
        THEN UpperLetters[CHOOSE j \in 1..26 : LowerLetters[j] = s[i]]
        ELSE s[i]]

\* str.strip(): drops the leading and the trailing whitespace
strip(s) ==
    LET keep == {i \in 1..Len(s) : s[i] \notin Whitespace}
    IN IF keep = {} THEN << >>
       ELSE LET first == CHOOSE i \in keep : \A j \in keep : i <= j
                last  == CHOOSE i \in keep : \A j \in keep : j <= i
            IN SubSeq(s, first, last)

\* str.startswith(prefix)
startswith(s, prefix) ==
    /\ Len(prefix) <= Len(s)
    /\ SubSeq(s, 1, Len(prefix)) = prefix

\* `sub in s` on strings
contains(s, sub) ==
    \E i \in 1..(Len(s) - Len(sub) + 1) : SubSeq(s, i, i + Len(sub) - 1) = sub

KW_SELECT == <<"S", "E", "L", "E", "C", "T">>
KW_INSERT == <<"I", "N", "S", "E", "R", "T">>
KW_UPDATE == <<"U", "P", "D", "A", "T", "E">>
KW_DELETE == <<"D", "E", "L", "E", "T", "E">>
KW_CREATE == <<"C", "R", "E", "A", "T", "E">>
KW_ALTER == <<"A", "L", "T", "E", "R">>
KW_DROP == <<"D", "R", "O", "P">>
kw_select == <<"s", "e", "l", "e", "c", "t">>
kw_users == <<"u", "s", "e", "r", "s">>
kw_products == <<"p", "r", "o", "d", "u", "c", "t", "s">>

\* ------------------------------------------------------------------- state
VARIABLES
    now,            \* the clock datetime.now() / time.time() reads
    qc,             \* DatabaseProxy.query_cache: [cache, access_times]
    stamps,         \* history: for each cached key, where it entered the cache
                    \* among the cached keys, when it was put and with
                    \* which text, when it was last used, and whether that use
                    \* was a hit in get
    res,            \* what the last direct call of a component did and returned
    permissions,    \* DatabaseProxy.user_permissions.permissions
    real_service,   \* DatabaseProxy._real_service: 0 is None, else an index of services
    services,       \* the RealDatabaseService objects created so far
    logs,           \* AuditLogger._logs
    metrics,        \* the counters of MetricsCollector
    pc,             \* where each thread is in its proxy call
    loc,            \* the arguments and local variables of each thread's call, and
                    \* history: the audit records and metrics when it began, the
                    \* store.connect() calls and store executions it has made
    ret,            \* what each thread's last proxy call returned or raised
    calls,          \* history: number of proxy calls issued
    writes,         \* history: the execute_update calls of a text that is no SELECT
                    \* which the store executed, and those that returned
    completed,      \* history: the direct calls of MetricsCollector of each kind
                    \* that completed since the last reset_metrics
    editor          \* the TextEditor of command.py: its document, its command
                    \* history and current position, with what its last call
                    \* returned

cacheVars == <<now, qc, stamps, res>>
proxyVars == <<permissions, real_service, services, logs, metrics, pc, loc, ret, calls, writes,
               completed, editor>>
vars == <<now, qc, stamps, res, permissions, real_service, services, logs, metrics,
          pc, loc, ret, calls, writes, completed, editor>>

Threads == 1..NumThreads

\* Python values: None, a QueryResult, an int, a bool.
None == [type |-> "NoneType"]
IntValue(n) == [type |-> "int", value |-> n]
BoolValue(b) == [type |-> "bool", truth |-> b]
StrValue(m) == [type |-> "str", text |-> m]
ListValue(items) == [type |-> "list", items |-> items]
\* QueryResult(rows, affected_rows, execution_time, timestamp); rows is kept as
\* len(rows); seen is history: writes.executed when the store produced it.
QueryResult(rows, timestamp, seen) ==
    [type |-> "QueryResult", rows |-> rows, affected_rows |-> 0,
     timestamp |-> timestamp, seen |-> seen]

\* No direct call of a component was made yet.  query is the text passed, key
\* the cache key of a cache call, result what the call returned, before the
\* cached keys in access order at the call.
ResInit == [op |-> "none", query |-> << >>, key |-> << >>, result |-> None,
            before |-> << >>]

\* QueryResult values a direct caller of the cache stores.
CacheResults == {QueryResult(0, 0, 0), QueryResult(4, 0, 0)}

\* ------------------------------------------------------------- QueryCache
\* dict[k] = v on a dict that keeps no order of its own
DictPut(f, k, v) == [x \in DOMAIN f \cup {k} |-> IF x = k THEN v ELSE f[x]]
\* del dict[k]
DictDel(f, k) == [x \in DOMAIN f \ {k} |-> f[x]]

\* The keys of an insertion-ordered dict kept as a sequence of [key, time].
OrdKeys(d) == {d[i].key : i \in 1..Len(d)}
\* dict[k] = v on an insertion-ordered dict: a present key keeps its place.
OrdPut(d, k, v) ==
    IF k \in OrdKeys(d)
    THEN [i \in 1..Len(d) |-> IF d[i].key = k THEN [key |-> k, time |-> v] ELSE d[i]]
    ELSE Append(d, [key |-> k, time |-> v])
\* del dict[k] on an insertion-ordered dict
OrdDel(d, k) == SelectSeq(d, LAMBDA e : e.key # k)

QueryCacheInit == [cache |-> << >>, access_times |-> << >>]

\* query.lower().strip(), tabulated once for the texts of the model.
CanonicalText == [q \in Queries \cup CacheQueries |-> strip(lower(q))]

\* A bug of the cache key: the text is hashed as it is.
get_cache_key_raw(query) == query

get_cache_key(query) == CanonicalText[query]

\* A bug of oldest_key: the first key in insertion order, whatever its time.
oldest_key_inserted(d) == d[1].key

\* A bug of oldest_key: the last key, in insertion order, among those with
\* the smallest access time.
oldest_key_last(d) ==
    LET i == CHOOSE i \in 1..Len(d) :
                 /\ \A j \in 1..Len(d) : d[i].time <= d[j].time
                 /\ \A j \in (i + 1)..Len(d) : d[j].time > d[i].time
    IN d[i].key

\* min(self._access_times.keys(), key=...): the first key, in insertion
\* order, among those with the smallest access time.
oldest_key(d) ==
    LET i == CHOOSE i \in 1..Len(d) :
                 /\ \A j \in 1..Len(d) : d[i].time <= d[j].time
                 /\ \A j \in 1..(i - 1) : d[j].time > d[i].time
    IN d[i].key

evict_oldest(c) ==
    IF c.access_times = << >> THEN c
    ELSE LET k == oldest_key(c.access_times)
         IN [cache |-> IF k \in DOMAIN c.cache THEN DictDel(c.cache, k) ELSE c.cache,
             access_times |-> OrdDel(c.access_times, k)]

\* A bug of get: a hit sets the access time of every entry.
get_touching_all(c, query, t1, t2) ==
    LET k == get_cache_key(query)
    IN IF k \in DOMAIN c.cache
       THEN IF t1 - c.cache[k].cached_time < ttl_seconds
            THEN [c |-> [c EXCEPT !.access_times =
                            [i \in 1..Len(@) |-> [key |-> @[i].key, time |-> t2]]],
                  result |-> c.cache[k].result]
            ELSE [c |-> [cache |-> DictDel(c.cache, k),
                         access_times |-> IF k \in OrdKeys(c.access_times)
                                          THEN OrdDel(c.access_times, k)
                                          ELSE c.access_times],
                  result |-> None]
       ELSE [c |-> c, result |-> None]

\* A bug of get: a hit also restarts the time to live of the entry.
get_refreshing(c, query, t1, t2) ==
    LET k == get_cache_key(query)
    IN IF k \in DOMAIN c.cache
       THEN IF t1 - c.cache[k].cached_time < ttl_seconds
            THEN [c |-> [cache |-> [c.cache EXCEPT ![k].cached_time = t2],
                         access_times |-> OrdPut(c.access_times, k, t2)],
                  result |-> c.cache[k].result]
            ELSE [c |-> [cache |-> DictDel(c.cache, k),
                         access_times |-> OrdDel(c.access_times, k)],
                  result |-> None]
       ELSE [c |-> c, result |-> None]

\* QueryCache.get with its two clock reads t1 <= t2: [c, result].
get(c, query, t1, t2) ==
    LET k == get_cache_key(query)
    IN IF k \in DOMAIN c.cache
       THEN IF t1 - c.cache[k].cached_time < ttl_seconds
            THEN [c |-> [c EXCEPT !.access_times = OrdPut(@, k, t2)],
                  result |-> c.cache[k].result]
            ELSE [c |-> [cache |-> DictDel(c.cache, k),
                         access_times |-> IF k \in OrdKeys(c.access_times)
                                          THEN OrdDel(c.access_times, k)
                                          ELSE c.access_times],
                  result |-> None]
       ELSE [c |-> c, result |-> None]

\* A bug of put: it evicts only once the cache is over its capacity.
put_late_eviction(c, query, result, t1, t2) ==
    LET k == get_cache_key(query)
        c1 == IF Cardinality(DOMAIN c.cache) > max_size THEN evict_oldest(c) ELSE c
    IN [cache |-> DictPut(c1.cache, k, [result |-> result, cached_time |-> t1]),
        access_times |-> OrdPut(c1.access_times, k, t2)]

\* QueryCache.put with its two clock reads t1 <= t2.
put(c, query, result, t1, t2) ==
    LET k == get_cache_key(query)
        c1 == IF Cardinality(DOMAIN c.cache) >= max_size THEN evict_oldest(c) ELSE c
    IN [cache |-> DictPut(c1.cache, k, [result |-> result, cached_time |-> t1]),
        access_times |-> OrdPut(c1.access_times, k, t2)]

\* A bug of clear: the access times are left behind.
clear_results_only(c) == [cache |-> << >>, access_times |-> c.access_times]

clear(c) == [cache |-> << >>, access_times |-> << >>]

\* The place of x among the cached keys kept, in the order in which they
\* entered the cache; a key that is not one of them enters last.
EnteredAmong(kept, x) ==
    IF x \in kept
    THEN 1 + Cardinality({y \in kept : stamps[y].entered < stamps[x].entered})
    ELSE Cardinality(kept) + 1
\* The history of the cached keys after put(query, ...) read the clock at t1
\* and t2.  The key put stays where it entered if it was cached and the put
\* evicted another key or none; evicted itself, it enters anew.
StampsAfterPut(c2, query, t1, t2) ==
    LET k == get_cache_key(query)
        kept == {x \in DOMAIN c2.cache \cap DOMAIN stamps :
                    \/ x # k
                    \/ DOMAIN c2.cache # DOMAIN qc.cache
                    \/ Cardinality(DOMAIN qc.cache) < max_size}
    IN [x \in DOMAIN c2.cache |->
            IF x = k
            THEN [put |-> t1, used |-> t2, hit |-> FALSE, query |-> query,
                  entered |-> EnteredAmong(kept, x)]
            ELSE [stamps[x] EXCEPT !.entered = EnteredAmong(kept, x)]]
\* The history of the cached keys after get(k), which read the clock at t2 on a hit.
StampsAfterGet(c2, k, hit, t2) ==
    [x \in DOMAIN c2.cache |->
        IF x = k /\ hit
        THEN [stamps[x] EXCEPT !.used = t2, !.hit = TRUE,
                               !.entered = EnteredAmong(DOMAIN c2.cache, x)]
        ELSE [stamps[x] EXCEPT !.entered = EnteredAmong(DOMAIN c2.cache, x)]]
\* The keys of the cache in the insertion order of the access times.
KeysInOrder(c) == [i \in 1..Len(c.access_times) |-> c.access_times[i].key]

\* --------------------------------------------------------- UserPermissions
PermissionTypes == {"SELECT", "INSERT", "UPDATE", "DELETE", "DDL", "ADMIN"}
\* The permissions of the users of the proxy: a reader and an administrator.
PermissionSets == {{"SELECT"}, {"ADMIN"}}

can_execute_select(perms) == "SELECT" \in perms \/ "ADMIN" \in perms
can_execute_insert(perms) == "INSERT" \in perms \/ "ADMIN" \in perms
can_execute_update(perms) == "UPDATE" \in perms \/ "ADMIN" \in perms
can_execute_delete(perms) == "DELETE" \in perms \/ "ADMIN" \in perms
can_execute_ddl(perms) == "DDL" \in perms \/ "ADMIN" \in perms

\* operation.upper(), tabulated once for the texts of the model.
OperationUpper == [q \in Queries \cup CacheQueries \cup PermissionTexts |-> upper(q)]

\* A bug of has_permission: a DELETE is allowed to who may UPDATE.
has_permission_delete_as_update(perms, operation) ==
    LET operation_upper == OperationUpper[operation]
    IN IF startswith(operation_upper, KW_SELECT) THEN can_execute_select(perms)
       ELSE IF startswith(operation_upper, KW_INSERT) THEN can_execute_insert(perms)
       ELSE IF startswith(operation_upper, KW_UPDATE) THEN can_execute_update(perms)
       ELSE IF startswith(operation_upper, KW_DELETE) THEN can_execute_update(perms)
       ELSE IF \/ startswith(operation_upper, KW_CREATE)
               \/ startswith(operation_upper, KW_ALTER)
               \/ startswith(operation_upper, KW_DROP) THEN can_execute_ddl(perms)
       ELSE FALSE

has_permission(perms, operation) ==
    LET operation_upper == OperationUpper[operation]
    IN IF startswith(operation_upper, KW_SELECT) THEN can_execute_select(perms)
       ELSE IF startswith(operation_upper, KW_INSERT) THEN can_execute_insert(perms)
       ELSE IF startswith(operation_upper, KW_UPDATE) THEN can_execute_update(perms)
       ELSE IF startswith(operation_upper, KW_DELETE) THEN can_execute_delete(perms)
       ELSE IF \/ startswith(operation_upper, KW_CREATE)
               \/ startswith(operation_upper, KW_ALTER)
               \/ startswith(operation_upper, KW_DROP) THEN can_execute_ddl(perms)
       ELSE FALSE

\* query.lower().strip().startswith("select")
is_select(query) == startswith(CanonicalText[query], kw_select)

\* ------------------------------------------------------------- AuditLogger
UserId == "user"

log_query(l, user_id, query, result) ==
    Append(l, [user_id |-> user_id, operation |-> "QUERY", query |-> query,
               success |-> result # None,
               rows_returned |-> IF result.type = "QueryResult" THEN result.rows ELSE 0])

log_connection(l, user_id, success) ==
    Append(l, [user_id |-> user_id, operation |-> "CONNECTION", success |-> success])

log_transaction(l, user_id, operation) ==
    Append(l, [user_id |-> user_id,
               operation |-> CASE operation = "BEGIN" -> "TRANSACTION_BEGIN"
                               [] operation = "COMMIT" -> "TRANSACTION_COMMIT"
                               [] operation = "ROLLBACK" -> "TRANSACTION_ROLLBACK",
               success |-> TRUE])

\* A bug of the trail: the records of every user are returned.
get_audit_trail_all(l, user_id) == ListValue(l)

\* [log for log in self._logs if log["user_id"] == user_id]
get_audit_trail(l, user_id) == ListValue(SelectSeq(l, LAMBDA log : log.user_id = user_id))

\* -------------------------------------------------------- MetricsCollector
MetricsInit == [query_count |-> 0, cache_hits |-> 0, cache_misses |-> 0,
                total_execution_time |-> 0, connection_count |-> 0]

record_query(m, execution_time) ==
    [m EXCEPT !.query_count = @ + 1, !.total_execution_time = @ + execution_time]
record_cache_hit(m) == [m EXCEPT !.cache_hits = @ + 1]
record_cache_miss(m) == [m EXCEPT !.cache_misses = @ + 1]
record_connection(m) == [m EXCEPT !.connection_count = @ + 1]

\* round(num / den) to the nearest integer, a tie going to the even one, as the
\* formats .1f and .3f round.
RoundHalfEven(num, den) ==
    LET q == num \div den
        r == num % den
    IN IF 2 * r < den THEN q
       ELSE IF 2 * r > den THEN q + 1
       ELSE IF q % 2 = 0 THEN q ELSE q + 1

\* A bug of the report: the two quotients are taken whatever the counters
\* are, and Python raises ZeroDivisionError when one of them divides by 0.
get_metrics_unguarded(m) ==
    IF m.cache_hits + m.cache_misses = 0 \/ m.query_count = 0
    THEN [type |-> "ZeroDivisionError"]
    ELSE [type |-> "dict",
          total_queries |-> m.query_count,
          total_connections |-> m.connection_count,
          cache_hits |-> m.cache_hits,
          cache_misses |-> m.cache_misses,
          cache_hit_rate |-> RoundHalfEven(m.cache_hits * 1000,
                                           m.cache_hits + m.cache_misses),
          average_execution_time |-> RoundHalfEven(m.total_execution_time * 1000,
                                                   m.query_count),
          total_execution_time |-> m.total_execution_time * 1000]

\* MetricsCollector.get_metrics: cache_hit_rate is kept in tenths of a percent
\* ("12.5%" is 125), the times in thousandths of a second ("0.250s" is 250).
get_metrics(m) ==
    LET total_cache_requests == m.cache_hits + m.cache_misses
        cache_hit_rate == IF total_cache_requests > 0
                          THEN RoundHalfEven(m.cache_hits * 1000, total_cache_requests)
                          ELSE 0
        avg_execution_time == IF m.query_count > 0
                              THEN RoundHalfEven(m.total_execution_time * 1000, m.query_count)
                              ELSE 0
    IN [type |-> "dict",
        total_queries |-> m.query_count,
        total_connections |-> m.connection_count,
        cache_hits |-> m.cache_hits,
        cache_misses |-> m.cache_misses,
        cache_hit_rate |-> cache_hit_rate,
        average_execution_time |-> avg_execution_time,
        total_execution_time |-> m.total_execution_time * 1000]

\* MetricsCollector.reset_metrics
reset_metrics(m) == MetricsInit

\* No direct call of the collector has completed.
CompletedInit == [record_query |-> 0, record_cache_hit |-> 0, record_cache_miss |-> 0,
                  record_connection |-> 0]

\* ----------------------------------------------------- RealDatabaseService
\* connections is history: the times _connected went from False to True;
\* transactions is history: the begin, commit and rollback calls of the store
\* that returned True, in their order.
RealDatabaseServiceInit == [connected |-> FALSE, in_transaction |-> FALSE, connections |-> 0,
                            transactions |-> << >>]

\* len(rows) of RealDatabaseService.execute_query: 4 users, 3 products.
mock_rows(query) ==
    LET query_lower == CanonicalText[query]
    IN IF startswith(query_lower, kw_select)
       THEN IF contains(query_lower, kw_users) THEN 4
            ELSE IF contains(query_lower, kw_products) THEN 3
            ELSE 0
       ELSE 0

\* random.randint(1, 5): the smallest and the largest count.
AffectedRows == {1, 5}

\* Time passes.
Tick ==
    /\ now < MaxTime
    /\ now' = now + 1
    /\ UNCHANGED <<qc, stamps, res>>

\* ----------------------------------------------------------- DatabaseProxy
LocInit ==
    [op |-> "none", query |-> << >>, real_service |-> 0, conn_service |-> 0,
     in_connect |-> FALSE, success |-> FALSE, result |-> None, start_time |-> 0,
     wrote |-> 0, log0 |-> 0, metrics0 |-> MetricsInit, connects |-> 0, executes |-> 0]

RetInit == [op |-> "none", query |-> << >>, kind |-> "none", value |-> None]

\* The call of thread t returns value, or raises when kind is an error name.
Return(t, kind, value) ==
    /\ pc' = [pc EXCEPT ![t] = "idle"]
    /\ ret' = [ret EXCEPT ![t] = [op |-> loc[t].op, query |-> loc[t].query,
                                  kind |-> kind, value |-> value]]
    /\ loc' = [loc EXCEPT ![t] = LocInit]

\* A second thread has called the proxy, or thread t is one.
Concurrent(t) ==
    \/ t > 1
    \/ \E u \in Threads \ {1} : pc[u] # "idle" \/ ret[u].kind # "none"

\* A thread keeps nothing from one call to the next, so the threads are
\* interchangeable: a call is issued by the first thread that is idle.
MayCall(t) ==
    /\ pc[t] = "idle"
    /\ calls < IF Concurrent(t) THEN MaxConcurrentCalls ELSE MaxCalls
    /\ \A u \in 1..(t - 1) : pc[u] # "idle"

\* A thread enters a proxy method.
Enter(t, op, query, p) ==
    /\ MayCall(t)
    /\ calls' = calls + 1
    /\ pc' = [pc EXCEPT ![t] = p]
    /\ loc' = [loc EXCEPT ![t] = [LocInit EXCEPT !.op = op, !.query = query,
                                                 !.log0 = Len(logs),
                                                 !.metrics0 = metrics]]

check_permissions(operation) == has_permission(permissions, operation)

\* A bug of the denial: the permission check comes after the cache lookup,
\* so that a denied call counts a cache miss.
PermissionDeniedAfterLookup(t, op, query) ==
    /\ MayCall(t)
    /\ calls' = calls + 1
    /\ pc' = pc
    /\ loc' = loc
    /\ ret' = [ret EXCEPT ![t] = [op |-> op, query |-> query,
                                  kind |-> "PermissionError", value |-> None]]
    /\ metrics' = record_cache_miss(metrics)
    /\ UNCHANGED <<cacheVars, permissions, real_service, services, logs, writes, completed, editor>>

\* `raise PermissionError(...)` of execute_query and execute_update.
PermissionDenied(t, op, query) ==
    /\ MayCall(t)
    /\ calls' = calls + 1
    /\ pc' = pc
    /\ loc' = loc
    /\ ret' = [ret EXCEPT ![t] = [op |-> op, query |-> query,
                                  kind |-> "PermissionError", value |-> None]]
    /\ UNCHANGED <<cacheVars, permissions, real_service, services, logs, metrics, writes, completed, editor>>

ExecuteQueryCall(t, query) ==
    IF ~check_permissions(query)
    THEN PermissionDenied(t, "execute_query", query)
    ELSE /\ Enter(t, "execute_query", query, "q_get")
         /\ UNCHANGED <<cacheVars, permissions, real_service, services, logs, metrics,
                        ret, writes, completed, editor>>

ExecuteUpdateCall(t, query) ==
    IF ~check_permissions(query)
    THEN PermissionDenied(t, "execute_update", query)
    ELSE /\ Enter(t, "execute_update", query, "svc_check")
         /\ UNCHANGED <<cacheVars, permissions, real_service, services, logs, metrics,
                        ret, writes, completed, editor>>

\* cached_result = self.query_cache.get(query)
QueryCacheGet(t) ==
    /\ pc[t] = "q_get"
    /\ \E d \in 0..1 :
        /\ now + d <= MaxTime
        /\ now' = now + d
        /\ LET r == get(qc, loc[t].query, now, now + d)
           IN /\ qc' = r.c
              /\ stamps' = StampsAfterGet(r.c, get_cache_key(loc[t].query), r.result # None, now + d)
              /\ loc' = [loc EXCEPT ![t].result = r.result]
              /\ pc' = [pc EXCEPT ![t] = IF r.result # None THEN "q_hit_metric"
                                         ELSE "q_miss_metric"]
    /\ UNCHANGED <<res, permissions, real_service, services, logs, metrics, ret, calls,
                   writes, completed, editor>>

\* A bug of the hit branch: a hit is also counted as an executed query.
QueryHitMetricCountsQuery(t) ==
    /\ pc[t] = "q_hit_metric"
    /\ metrics' = record_query(record_cache_hit(metrics), 0)
    /\ pc' = [pc EXCEPT ![t] = "q_hit_log"]
    /\ UNCHANGED <<cacheVars, permissions, real_service, services, logs, loc, ret, calls,
                   writes, completed, editor>>

\* self.metrics_collector.record_cache_hit()
QueryHitMetric(t) ==
    /\ pc[t] = "q_hit_metric"
    /\ metrics' = record_cache_hit(metrics)
    /\ pc' = [pc EXCEPT ![t] = "q_hit_log"]
    /\ UNCHANGED <<cacheVars, permissions, real_service, services, logs, loc, ret, calls,
                   writes, completed, editor>>

QueryHitLog(t) ==
    /\ pc[t] = "q_hit_log"
    /\ logs' = log_query(logs, UserId, loc[t].query, loc[t].result)
    /\ Return(t, "ok", loc[t].result)
    /\ UNCHANGED <<cacheVars, permissions, real_service, services, metrics, calls, writes, completed, editor>>

QueryMissMetric(t) ==
    /\ pc[t] = "q_miss_metric"
    /\ metrics' = record_cache_miss(metrics)
    /\ pc' = [pc EXCEPT ![t] = "svc_check"]
    /\ UNCHANGED <<cacheVars, permissions, real_service, services, logs, loc, ret, calls,
                   writes, completed, editor>>

\* Where a call goes on once it holds a connected service.
ExecutePc(op) ==
    CASE op = "execute_query" -> "q_execute"
      [] op = "execute_update" -> "u_execute"
      [] op = "begin_transaction" -> "b_begin"

\* _get_real_service returns service i to its caller: to connect() when the
\* thread is inside connect(), else to the proxy method.
GotService(t, i) ==
    IF loc[t].in_connect
    THEN /\ loc' = [loc EXCEPT ![t].conn_service = i]
         /\ pc' = [pc EXCEPT ![t] = "c_connect"]
    ELSE IF loc[t].op = "begin_transaction"
    THEN /\ loc' = [loc EXCEPT ![t].real_service = i, ![t].in_connect = TRUE]
         /\ pc' = [pc EXCEPT ![t] = "svc_check"]
    ELSE /\ loc' = [loc EXCEPT ![t].real_service = i]
         /\ pc' = [pc EXCEPT ![t] = "is_connected"]

\* _get_real_service: `if self._real_service is None`, and on a service that
\* exists `return self._real_service`.
GetRealServiceCheck(t) ==
    /\ pc[t] = "svc_check"
    /\ IF real_service = 0
       THEN /\ pc' = [pc EXCEPT ![t] = "svc_assign"]
            /\ loc' = loc
       ELSE GotService(t, real_service)
    /\ UNCHANGED <<cacheVars, permissions, real_service, services, logs, metrics, ret,
                   calls, writes, completed, editor>>

\* self._real_service = RealDatabaseService(self.config)
GetRealServiceAssign(t) ==
    /\ pc[t] = "svc_assign"
    /\ services' = Append(services, RealDatabaseServiceInit)
    /\ real_service' = Len(services) + 1
    /\ pc' = [pc EXCEPT ![t] = "svc_return"]
    /\ UNCHANGED <<cacheVars, permissions, logs, metrics, loc, ret, calls, writes, completed, editor>>

\* return self._real_service
GetRealServiceReturn(t) ==
    /\ pc[t] = "svc_return"
    /\ GotService(t, real_service)
    /\ UNCHANGED <<cacheVars, permissions, real_service, services, logs, metrics, ret,
                   calls, writes, completed, editor>>

\* if not real_service.is_connected(): if not self.connect(): ...
EnsureConnected(t) ==
    /\ pc[t] = "is_connected"
    /\ IF services[loc[t].real_service].connected
       THEN /\ pc' = [pc EXCEPT ![t] = ExecutePc(loc[t].op)]
            /\ loc' = loc
       ELSE /\ pc' = [pc EXCEPT ![t] = "svc_check"]
            /\ loc' = [loc EXCEPT ![t].in_connect = TRUE]
    /\ UNCHANGED <<cacheVars, permissions, real_service, services, logs, metrics, ret,
                   calls, writes, completed, editor>>

\* A bug of the callers of connect(): a failed connect is attempted again.
ConnectDoneRetrying(t, success) ==
    IF loc[t].op = "connect" THEN Return(t, "ok", BoolValue(success))
    ELSE IF success
    THEN /\ pc' = [pc EXCEPT ![t] = ExecutePc(loc[t].op)]
         /\ loc' = [loc EXCEPT ![t].in_connect = FALSE]
         /\ ret' = ret
    ELSE /\ pc' = [pc EXCEPT ![t] = "svc_check"]
         /\ loc' = loc
         /\ ret' = ret

\* What follows connect() in its caller, success being what it returned.
ConnectDone(t, success) ==
    IF loc[t].op = "connect" THEN Return(t, "ok", BoolValue(success))
    ELSE IF success
    THEN /\ pc' = [pc EXCEPT ![t] = ExecutePc(loc[t].op)]
         /\ loc' = [loc EXCEPT ![t].in_connect = FALSE]
         /\ ret' = ret
    ELSE IF loc[t].op = "begin_transaction" THEN Return(t, "ok", BoolValue(FALSE))
    ELSE Return(t, "RuntimeError", StrValue("Failed to connect to database"))

\* RealDatabaseService.connect: `if self._connected: return True`
RealConnectCheck(t) ==
    /\ pc[t] = "c_connect"
    /\ IF services[loc[t].conn_service].connected
       THEN /\ pc' = [pc EXCEPT ![t] = "c_log"]
            /\ loc' = [loc EXCEPT ![t].success = TRUE, ![t].connects = @ + 1]
       ELSE /\ pc' = [pc EXCEPT ![t] = "c_connecting"]
            /\ loc' = [loc EXCEPT ![t].connects = @ + 1]
    /\ UNCHANGED <<cacheVars, permissions, real_service, services, logs, metrics, ret,
                   calls, writes, completed, editor>>

\* RealDatabaseService.connect after its sleep: fails, or sets _connected.
RealConnectFinish(t) ==
    /\ pc[t] = "c_connecting"
    /\ \E ok \in BOOLEAN :
        /\ services' = IF ok THEN [services EXCEPT ![loc[t].conn_service].connected = TRUE,
                                                   ![loc[t].conn_service].connections =
                                                        IF services[loc[t].conn_service].connected
                                                        THEN @ ELSE @ + 1]
                       ELSE services
        /\ loc' = [loc EXCEPT ![t].success = ok]
    /\ pc' = [pc EXCEPT ![t] = "c_log"]
    /\ UNCHANGED <<cacheVars, permissions, real_service, logs, metrics, ret, calls, writes, completed, editor>>

\* A bug of connect: record_connection() comes before `if success`, so that a
\* failed attempt is counted as a connection.
ConnectLogCountsFailure(t) ==
    /\ pc[t] = "c_log"
    /\ logs' = log_connection(logs, UserId, loc[t].success)
    /\ IF loc[t].success
       THEN /\ pc' = [pc EXCEPT ![t] = "c_metric"]
            /\ metrics' = metrics
            /\ UNCHANGED <<loc, ret>>
       ELSE /\ ConnectDone(t, FALSE)
            /\ metrics' = record_connection(metrics)
    /\ UNCHANGED <<cacheVars, permissions, real_service, services, calls, writes, completed, editor>>

\* self.audit_logger.log_connection(user_id, success); `return success` on a failure
ConnectLog(t) ==
    /\ pc[t] = "c_log"
    /\ logs' = log_connection(logs, UserId, loc[t].success)
    /\ IF loc[t].success
       THEN /\ pc' = [pc EXCEPT ![t] = "c_metric"]
            /\ UNCHANGED <<loc, ret>>
       ELSE ConnectDone(t, FALSE)
    /\ UNCHANGED <<cacheVars, permissions, real_service, services, metrics, calls, writes, completed, editor>>

\* self.metrics_collector.record_connection(); return success
ConnectMetric(t) ==
    /\ pc[t] = "c_metric"
    /\ metrics' = record_connection(metrics)
    /\ ConnectDone(t, TRUE)
    /\ UNCHANGED <<cacheVars, permissions, real_service, services, logs, calls, writes, completed, editor>>

\* start_time = time.time(); result = real_service.execute_query(query)
QueryExecute(t) ==
    /\ pc[t] = "q_execute"
    /\ IF services[loc[t].real_service].connected
       THEN /\ loc' = [loc EXCEPT ![t].start_time = now, ![t].executes = @ + 1,
                                  ![t].result = QueryResult(mock_rows(loc[t].query), now,
                                                            writes.executed)]
            /\ pc' = [pc EXCEPT ![t] = "q_record"]
       ELSE /\ loc' = [loc EXCEPT ![t].start_time = now, ![t].executes = @ + 1]
            /\ pc' = [pc EXCEPT ![t] = "q_except"]
    /\ UNCHANGED <<cacheVars, permissions, real_service, services, logs, metrics, ret,
                   calls, writes, completed, editor>>

\* A bug of the caching: the result of every text is put into the cache.
QueryRecordCachingAll(t) ==
    /\ pc[t] = "q_record"
    /\ metrics' = record_query(metrics, now - loc[t].start_time)
    /\ pc' = [pc EXCEPT ![t] = "q_put"]
    /\ UNCHANGED <<cacheVars, permissions, real_service, services, logs, loc, ret, calls,
                   writes, completed, editor>>

\* self.metrics_collector.record_query(time.time() - start_time)
QueryRecord(t) ==
    /\ pc[t] = "q_record"
    /\ metrics' = record_query(metrics, now - loc[t].start_time)
    /\ pc' = [pc EXCEPT ![t] = IF is_select(loc[t].query) THEN "q_put" ELSE "q_log"]
    /\ UNCHANGED <<cacheVars, permissions, real_service, services, logs, loc, ret, calls,
                   writes, completed, editor>>

\* self.query_cache.put(query, result)
QueryCachePut(t) ==
    /\ pc[t] = "q_put"
    /\ \E d \in 0..1 :
        /\ now + d <= MaxTime
        /\ now' = now + d
        /\ LET c2 == put(qc, loc[t].query, loc[t].result, now, now + d)
           IN /\ qc' = c2
              /\ stamps' = StampsAfterPut(c2, loc[t].query, now, now + d)
    /\ pc' = [pc EXCEPT ![t] = "q_log"]
    /\ UNCHANGED <<res, permissions, real_service, services, logs, metrics, loc, ret,
                   calls, writes, completed, editor>>

\* self.audit_logger.log_query(user_id, query, result); return result
QueryLog(t) ==
    /\ pc[t] = "q_log"
    /\ logs' = log_query(logs, UserId, loc[t].query, loc[t].result)
    /\ Return(t, "ok", loc[t].result)
    /\ UNCHANGED <<cacheVars, permissions, real_service, services, metrics, calls, writes, completed, editor>>

\* A bug of the except branch: the failed execution is counted as a query.
ExecuteExceptCountsQuery(t) ==
    /\ pc[t] \in {"q_except", "u_except"}
    /\ logs' = log_query(logs, UserId, loc[t].query, None)
    /\ metrics' = record_query(metrics, now - loc[t].start_time)
    /\ Return(t, "RuntimeError", StrValue("Not connected to database"))
    /\ UNCHANGED <<cacheVars, permissions, real_service, services, calls, writes, completed, editor>>

\* except Exception as e: self.audit_logger.log_query(user_id, query, None); raise e
ExecuteExcept(t) ==
    /\ pc[t] \in {"q_except", "u_except"}
    /\ logs' = log_query(logs, UserId, loc[t].query, None)
    /\ Return(t, "RuntimeError", StrValue("Not connected to database"))
    /\ UNCHANGED <<cacheVars, permissions, real_service, services, metrics, calls, writes, completed, editor>>

\* start_time = time.time(); result = real_service.execute_update(query)
UpdateExecute(t) ==
    /\ pc[t] = "u_execute"
    /\ IF services[loc[t].real_service].connected
       THEN \E n \in AffectedRows :
            /\ writes' = IF is_select(loc[t].query) THEN writes
                         ELSE [writes EXCEPT !.executed = @ + 1]
            /\ loc' = [loc EXCEPT ![t].start_time = now, ![t].result = IntValue(n),
                                  ![t].executes = @ + 1,
                                  ![t].wrote = IF is_select(loc[t].query) THEN 0
                                               ELSE writes.executed + 1]
            /\ pc' = [pc EXCEPT ![t] = IF ~is_select(loc[t].query) THEN "u_clear"
                                       ELSE "u_record"]
       ELSE /\ loc' = [loc EXCEPT ![t].start_time = now, ![t].executes = @ + 1]
            /\ pc' = [pc EXCEPT ![t] = "u_except"]
            /\ writes' = writes
    /\ UNCHANGED <<cacheVars, permissions, real_service, services, logs, metrics, ret,
                   calls, completed, editor>>

\* self.query_cache.clear() of execute_update
UpdateClear(t) ==
    /\ pc[t] = "u_clear"
    /\ qc' = clear(qc)
    /\ stamps' = << >>
    /\ pc' = [pc EXCEPT ![t] = "u_record"]
    /\ UNCHANGED <<now, res, permissions, real_service, services, logs, metrics, loc, ret,
                   calls, writes, completed, editor>>

\* A bug of execute_update: the execution is not counted.
UpdateRecordSkipped(t) ==
    /\ pc[t] = "u_record"
    /\ pc' = [pc EXCEPT ![t] = "u_log"]
    /\ UNCHANGED <<cacheVars, permissions, real_service, services, logs, metrics, loc, ret,
                   calls, writes, completed, editor>>

UpdateRecord(t) ==
    /\ pc[t] = "u_record"
    /\ metrics' = record_query(metrics, now - loc[t].start_time)
    /\ pc' = [pc EXCEPT ![t] = "u_log"]
    /\ UNCHANGED <<cacheVars, permissions, real_service, services, logs, loc, ret, calls,
                   writes, completed, editor>>

UpdateLog(t) ==
    /\ pc[t] = "u_log"
    /\ logs' = log_query(logs, UserId, loc[t].query, loc[t].result)
    /\ writes' = [writes EXCEPT !.returned = IF loc[t].wrote > @ THEN loc[t].wrote ELSE @]
    /\ Return(t, "ok", loc[t].result)
    /\ UNCHANGED <<cacheVars, permissions, real_service, services, metrics, calls, completed, editor>>

\* A call that ends within its first step.
ReturnNow(t, op, value) ==
    /\ MayCall(t)
    /\ calls' = calls + 1
    /\ ret' = [ret EXCEPT ![t] = [op |-> op, query |-> << >>, kind |-> "ok",
                                  value |-> value]]
    /\ UNCHANGED <<pc, loc>>

\* begin_transaction: `if self._real_service is None` and its else branch
BeginCall(t) ==
    /\ Enter(t, "begin_transaction", << >>, IF real_service = 0 THEN "svc_check"
                                            ELSE "b_begin")
    /\ UNCHANGED <<cacheVars, permissions, real_service, services, logs, metrics, ret,
                   writes, completed, editor>>

\* success = real_service.begin_transaction(): False when not connected
BeginTransaction(t) ==
    /\ pc[t] = "b_begin"
    /\ LET i == IF loc[t].real_service = 0 THEN real_service ELSE loc[t].real_service
       IN IF services[i].connected
          THEN /\ services' = [services EXCEPT ![i].in_transaction = TRUE,
                                                ![i].transactions = Append(@, "BEGIN")]
               /\ pc' = [pc EXCEPT ![t] = "b_log"]
               /\ UNCHANGED <<loc, ret>>
          ELSE /\ Return(t, "ok", BoolValue(FALSE))
               /\ services' = services
    /\ UNCHANGED <<cacheVars, permissions, real_service, logs, metrics, calls, writes, completed, editor>>

BeginLog(t) ==
    /\ pc[t] = "b_log"
    /\ logs' = log_transaction(logs, UserId, "BEGIN")
    /\ Return(t, "ok", BoolValue(TRUE))
    /\ UNCHANGED <<cacheVars, permissions, real_service, services, metrics, calls, writes, completed, editor>>

\* commit_transaction up to `success = self._real_service.commit_transaction()`
CommitCall(t) ==
    IF real_service = 0 \/ ~services[real_service].in_transaction
    THEN /\ ReturnNow(t, "commit_transaction", BoolValue(FALSE))
         /\ UNCHANGED <<cacheVars, permissions, real_service, services, logs, metrics,
                        writes, completed, editor>>
    ELSE /\ Enter(t, "commit_transaction", << >>, "t_commit_log")
         /\ services' = [services EXCEPT ![real_service].in_transaction = FALSE,
                                         ![real_service].transactions = Append(@, "COMMIT")]
         /\ UNCHANGED <<cacheVars, permissions, real_service, logs, metrics, ret, writes, completed, editor>>

CommitLog(t) ==
    /\ pc[t] = "t_commit_log"
    /\ logs' = log_transaction(logs, UserId, "COMMIT")
    /\ pc' = [pc EXCEPT ![t] = "t_commit_clear"]
    /\ UNCHANGED <<cacheVars, permissions, real_service, services, metrics, loc, ret,
                   calls, writes, completed, editor>>

\* self.query_cache.clear() of commit_transaction; return success
CommitClear(t) ==
    /\ pc[t] = "t_commit_clear"
    /\ qc' = clear(qc)
    /\ stamps' = << >>
    /\ Return(t, "ok", BoolValue(TRUE))
    /\ UNCHANGED <<now, res, permissions, real_service, services, logs, metrics, calls,
                   writes, completed, editor>>

\* A bug of rollback_transaction: the store does not test _in_transaction.
RollbackCallUnchecked(t) ==
    IF real_service = 0
    THEN /\ ReturnNow(t, "rollback_transaction", BoolValue(FALSE))
         /\ UNCHANGED <<cacheVars, permissions, real_service, services, logs, metrics,
                        writes, completed, editor>>
    ELSE /\ Enter(t, "rollback_transaction", << >>, "t_rollback_log")
         /\ services' = [services EXCEPT ![real_service].in_transaction = FALSE,
                                         ![real_service].transactions = Append(@, "ROLLBACK")]
         /\ UNCHANGED <<cacheVars, permissions, real_service, logs, metrics, ret, writes, completed, editor>>

\* rollback_transaction up to `success = self._real_service.rollback_transaction()`
RollbackCall(t) ==
    IF real_service = 0 \/ ~services[real_service].in_transaction
    THEN /\ ReturnNow(t, "rollback_transaction", BoolValue(FALSE))
         /\ UNCHANGED <<cacheVars, permissions, real_service, services, logs, metrics,
                        writes, completed, editor>>
    ELSE /\ Enter(t, "rollback_transaction", << >>, "t_rollback_log")
         /\ services' = [services EXCEPT ![real_service].in_transaction = FALSE,
                                         ![real_service].transactions = Append(@, "ROLLBACK")]
         /\ UNCHANGED <<cacheVars, permissions, real_service, logs, metrics, ret, writes, completed, editor>>

\* A bug of rollback_transaction: it clears the cache as a commit does.
RollbackLogClearing(t) ==
    /\ pc[t] = "t_rollback_log"
    /\ logs' = log_transaction(logs, UserId, "ROLLBACK")
    /\ qc' = clear(qc)
    /\ stamps' = << >>
    /\ Return(t, "ok", BoolValue(TRUE))
    /\ UNCHANGED <<now, res, permissions, real_service, services, metrics, calls, writes, completed, editor>>

\* self.audit_logger.log_transaction(user_id, "ROLLBACK"); return success
RollbackLog(t) ==
    /\ pc[t] = "t_rollback_log"
    /\ logs' = log_transaction(logs, UserId, "ROLLBACK")
    /\ Return(t, "ok", BoolValue(TRUE))
    /\ UNCHANGED <<cacheVars, permissions, real_service, services, metrics, calls, writes, completed, editor>>

\* DatabaseProxy.connect called by the client
ConnectCall(t) ==
    /\ MayCall(t)
    /\ calls' = calls + 1
    /\ pc' = [pc EXCEPT ![t] = "svc_check"]
    /\ loc' = [loc EXCEPT ![t] = [LocInit EXCEPT !.op = "connect", !.in_connect = TRUE,
                                                 !.log0 = Len(logs),
                                                 !.metrics0 = metrics]]
    /\ UNCHANGED <<cacheVars, permissions, real_service, services, logs, metrics, ret,
                   writes, completed, editor>>

\* DatabaseProxy.disconnect and RealDatabaseService.disconnect
DisconnectCall(t) ==
    /\ ReturnNow(t, "disconnect", BoolValue(TRUE))
    /\ services' = IF real_service = 0 THEN services
                   ELSE [services EXCEPT ![real_service].connected = FALSE]
    /\ UNCHANGED <<cacheVars, permissions, real_service, logs, metrics, writes, completed, editor>>

\* A bug of is_connected: it asks _get_real_service() for the handle, which
\* creates the store.
IsConnectedCallCreating(t) ==
    /\ ReturnNow(t, "is_connected",
                 BoolValue(real_service # 0 /\ services[real_service].connected))
    /\ IF real_service = 0
       THEN /\ services' = Append(services, RealDatabaseServiceInit)
            /\ real_service' = Len(services) + 1
       ELSE UNCHANGED <<real_service, services>>
    /\ UNCHANGED <<cacheVars, permissions, logs, metrics, writes, completed, editor>>

\* DatabaseProxy.is_connected
IsConnectedCall(t) ==
    /\ ReturnNow(t, "is_connected",
                 BoolValue(real_service # 0 /\ services[real_service].connected))
    /\ UNCHANGED <<cacheVars, permissions, real_service, services, logs, metrics, writes, completed, editor>>

\* DatabaseProxy.get_metrics_report
GetMetricsReportCall(t) ==
    /\ ReturnNow(t, "get_metrics_report", get_metrics(metrics))
    /\ UNCHANGED <<cacheVars, permissions, real_service, services, logs, metrics, writes, completed, editor>>

\* DatabaseProxy.get_audit_trail
GetAuditTrailCall(t) ==
    /\ ReturnNow(t, "get_audit_trail", get_audit_trail(logs, UserId))
    /\ UNCHANGED <<cacheVars, permissions, real_service, services, logs, metrics, writes, completed, editor>>

\* --------------------------------------------- the text editor of command.py
\* A text is the sequence of its characters.
Texts == {<<"a">>, <<"b", "a">>}
Positions == 0..2
Lengths == -1..1
\* The longest document and the longest command history that are followed.
MaxContent == 3
MaxHistory == 2
\* The execute_command calls that raise, at most.
MaxFailed == 1

\* s[lo:hi] of a Python sequence: a negative index counts from the end, and
\* an index beyond an end is that end.
Slice(s, lo, hi) ==
    LET n == Len(s)
        Index(i) == IF i < 0 THEN (IF i + n < 0 THEN 0 ELSE i + n)
                    ELSE (IF i > n THEN n ELSE i)
    IN IF Index(lo) < Index(hi) THEN SubSeq(s, Index(lo) + 1, Index(hi)) ELSE << >>

\* s[:hi] and s[lo:]
SliceTo(s, hi) == Slice(s, 0, hi)
SliceFrom(s, lo) == Slice(s, lo, Len(s))

\* TextDocument.insert_text: the new content, or ValueError
insert_text(content, position, text) ==
    IF 0 <= position /\ position <= Len(content)
    THEN [content |-> SliceTo(content, position) \o text \o SliceFrom(content, position),
          raised |-> FALSE]
    ELSE [content |-> content, raised |-> TRUE]

\* TextDocument.delete_text: the new content and the deleted text, or ValueError
delete_text(content, position, length) ==
    IF position < 0 \/ position + length > Len(content)
    THEN [content |-> content, raised |-> TRUE, deleted_text |-> << >>]
    ELSE [content |-> SliceTo(content, position) \o SliceFrom(content, position + length),
          raised |-> FALSE,
          deleted_text |-> Slice(content, position, position + length)]

\* The commands as they are constructed: none is executed.
InsertCommand(position, text) ==
    [text |-> text, kind |-> "insert", executed |-> FALSE, position |-> position,
     length |-> 0, deleted_text |-> << >>, commands |-> << >>]

DeleteCommand(position, length) ==
    [text |-> << >>, kind |-> "delete", executed |-> FALSE, position |-> position,
     length |-> length, deleted_text |-> << >>, commands |-> << >>]

MacroCommand(commands) ==
    [text |-> << >>, kind |-> "macro", executed |-> FALSE, position |-> 0,
     length |-> 0, deleted_text |-> << >>, commands |-> commands]

RECURSIVE execute(_, _)
RECURSIVE ExecuteEach(_, _)
RECURSIVE undo(_, _)
RECURSIVE UndoEach(_, _)

\* `for command in self._commands: command.execute()`: it stops at the
\* command that raises, the commands before it executed.
ExecuteEach(commands, content) ==
    IF commands = << >>
    THEN [content |-> content, raised |-> FALSE, commands |-> << >>]
    ELSE LET r == execute(Head(commands), content)
         IN IF r.raised
            THEN [content |-> r.content, raised |-> TRUE,
                  commands |-> <<r.command>> \o Tail(commands)]
            ELSE LET rest == ExecuteEach(Tail(commands), r.content)
                 IN [content |-> rest.content, raised |-> rest.raised,
                     commands |-> <<r.command>> \o rest.commands]

\* InsertCommand.execute, DeleteCommand.execute, MacroCommand.execute: the
\* command and the content of the document after it, and whether it raised.
execute(command, content) ==
    IF command.executed
    THEN [content |-> content, raised |-> TRUE, command |-> command]
    ELSE IF command.kind = "insert"
    THEN LET r == insert_text(content, command.position, command.text)
         IN [content |-> r.content, raised |-> r.raised,
             command |-> [command EXCEPT !.executed = ~r.raised]]
    ELSE IF command.kind = "delete"
    THEN LET r == delete_text(content, command.position, command.length)
         IN [content |-> r.content, raised |-> r.raised,
             command |-> IF r.raised THEN command
                         ELSE [command EXCEPT !.deleted_text = r.deleted_text,
                                              !.executed = TRUE]]
    ELSE LET r == ExecuteEach(command.commands, content)
         IN [content |-> r.content, raised |-> r.raised,
             command |-> [command EXCEPT !.commands = r.commands, !.executed = ~r.raised]]

\* `for command in reversed(self._commands): command.undo()`
UndoEach(commands, content) ==
    IF commands = << >>
    THEN [content |-> content, raised |-> FALSE, commands |-> << >>]
    ELSE LET n == Len(commands)
             r == undo(commands[n], content)
         IN IF r.raised
            THEN [content |-> r.content, raised |-> TRUE,
                  commands |-> SubSeq(commands, 1, n - 1) \o <<r.command>>]
            ELSE LET rest == UndoEach(SubSeq(commands, 1, n - 1), r.content)
                 IN [content |-> rest.content, raised |-> rest.raised,
                     commands |-> rest.commands \o <<r.command>>]

\* InsertCommand.undo, DeleteCommand.undo, MacroCommand.undo
undo(command, content) ==
    IF ~command.executed
    THEN [content |-> content, raised |-> TRUE, command |-> command]
    ELSE IF command.kind = "insert"
    THEN LET r == delete_text(content, command.position, Len(command.text))
         IN [content |-> r.content, raised |-> r.raised,
             command |-> [command EXCEPT !.executed = r.raised]]
    ELSE IF command.kind = "delete"
    THEN LET r == insert_text(content, command.position, command.deleted_text)
         IN [content |-> r.content, raised |-> r.raised,
             command |-> [command EXCEPT !.executed = r.raised]]
    ELSE LET r == UndoEach(command.commands, content)
         IN [content |-> r.content, raised |-> r.raised,
             command |-> [command EXCEPT !.commands = r.commands, !.executed = r.raised]]

\* The commands given to the editor: an insertion, a deletion, or a macro of
\* two commands among four.
SimpleCommands ==
    {InsertCommand(position, text) : position \in Positions, text \in Texts}
        \cup {DeleteCommand(position, length) : position \in Positions, length \in Lengths}

MacroParts ==
    {InsertCommand(0, <<"a">>), InsertCommand(2, <<"a">>),
     DeleteCommand(0, 1), DeleteCommand(1, -1)}

Commands ==
    SimpleCommands \cup {MacroCommand(<<c1, c2>>) : c1 \in MacroParts, c2 \in MacroParts}

\* TextEditor.__init__. before and after are history: the content of the
\* document before and after each command of the history was executed by
\* execute_command; failed is history: the execute_command calls that have
\* raised; last is the last call and what it returned.
TextEditorInit ==
    [last |-> [value |-> "none", op |-> "none"], before |-> << >>, content |-> << >>,
     command_history |-> << >>, current_position |-> -1, after |-> << >>, failed |-> 0]

\* TextEditor.execute_command: the history is cut at the current position,
\* the command executes, and if it did not raise it is added.
ExecuteCommand(command) ==
    /\ LET kept == SliceTo(editor.command_history, editor.current_position + 1)
           r == execute(command, editor.content)
       IN /\ Len(r.content) <= MaxContent
          /\ IF r.raised
             THEN /\ editor.failed < MaxFailed
                  /\ editor' = [editor EXCEPT
                                    !.content = r.content,
                                    !.command_history = kept,
                                    !.last = [value |-> "raised", op |-> "execute_command"],
                                    !.before = SliceTo(@, editor.current_position + 1),
                                    !.after = SliceTo(@, editor.current_position + 1),
                                    !.failed = @ + 1]
             ELSE /\ Len(kept) < MaxHistory
                  /\ editor' =
                        [editor EXCEPT
                            !.content = r.content,
                            !.command_history = Append(kept, r.command),
                            !.current_position = @ + 1,
                            !.last = [value |-> "None", op |-> "execute_command"],
                            !.before = Append(SliceTo(@, editor.current_position + 1),
                                              editor.content),
                            !.after = Append(SliceTo(@, editor.current_position + 1),
                                             r.content)]
    /\ UNCHANGED <<cacheVars, permissions, real_service, services, logs, metrics, pc, loc,
                   ret, calls, writes, completed>>

\* TextEditor.undo
Undo ==
    /\ IF editor.current_position < 0
       THEN editor' = [editor EXCEPT !.last = [value |-> "False", op |-> "undo"]]
       ELSE LET r == undo(editor.command_history[editor.current_position + 1],
                          editor.content)
            IN /\ Len(r.content) <= MaxContent
               /\ editor' =
                    [editor EXCEPT
                        !.content = r.content,
                        !.command_history[editor.current_position + 1] = r.command,
                        !.current_position = IF r.raised THEN @ ELSE @ - 1,
                        !.last = [value |-> IF r.raised THEN "raised" ELSE "True", op |-> "undo"]]
    /\ UNCHANGED <<cacheVars, permissions, real_service, services, logs, metrics, pc, loc,
                   ret, calls, writes, completed>>

\* TextEditor.redo: the position moves on before the command executes.
Redo ==
    /\ IF editor.current_position >= Len(editor.command_history) - 1
       THEN editor' = [editor EXCEPT !.last = [value |-> "False", op |-> "redo"]]
       ELSE LET r == execute(editor.command_history[editor.current_position + 2],
                             editor.content)
            IN /\ Len(r.content) <= MaxContent
               /\ editor' =
                    [editor EXCEPT
                        !.content = r.content,
                        !.command_history[editor.current_position + 2] = r.command,
                        !.current_position = @ + 1,
                        !.last = [value |-> IF r.raised THEN "raised" ELSE "True", op |-> "redo"]]
    /\ UNCHANGED <<cacheVars, permissions, real_service, services, logs, metrics, pc, loc,
                   ret, calls, writes, completed>>

\* A command that was not executed, or one that was: the caller keeps the
\* commands it has given to the editor.
NextEditor ==
    \/ \E command \in Commands, executed \in BOOLEAN :
            ExecuteCommand([command EXCEPT !.executed = executed])
    \/ Undo
    \/ Redo

\* ------------------------------------------------------------ specification
Init ==
    /\ now = 0
    /\ qc = QueryCacheInit
    /\ stamps = << >>
    /\ res = ResInit
    /\ permissions \in PermissionSets
    /\ real_service = 0
    /\ services = << >>
    /\ logs = << >>
    /\ metrics = MetricsInit
    /\ pc = [t \in Threads |-> "idle"]
    /\ loc = [t \in Threads |-> LocInit]
    /\ ret = [t \in Threads |-> RetInit]
    /\ calls = 0
    /\ writes = [executed |-> 0, returned |-> 0]
    /\ completed = CompletedInit
    /\ editor = TextEditorInit

\* One step of the proxy call of thread t, but for the except branches.
CallStep(t) ==
    \/ \E q \in Queries : ExecuteQueryCall(t, q)
    \/ \E q \in Queries : ExecuteUpdateCall(t, q)
    \/ QueryCacheGet(t)
    \/ QueryHitMetric(t)
    \/ QueryHitLog(t)
    \/ QueryMissMetric(t)
    \/ GetRealServiceCheck(t)
    \/ GetRealServiceAssign(t)
    \/ GetRealServiceReturn(t)
    \/ EnsureConnected(t)
    \/ RealConnectCheck(t)
    \/ RealConnectFinish(t)
    \/ ConnectLog(t)
    \/ ConnectMetric(t)
    \/ QueryExecute(t)
    \/ QueryRecord(t)
    \/ QueryCachePut(t)
    \/ QueryLog(t)
    \/ UpdateExecute(t)
    \/ UpdateClear(t)
    \/ UpdateRecord(t)
    \/ UpdateLog(t)
    \/ BeginCall(t)
    \/ BeginTransaction(t)
    \/ BeginLog(t)
    \/ CommitCall(t)
    \/ CommitLog(t)
    \/ CommitClear(t)
    \/ RollbackCall(t)
    \/ RollbackLog(t)
    \/ ConnectCall(t)
    \/ DisconnectCall(t)
    \/ IsConnectedCall(t)
    \/ GetMetricsReportCall(t)
    \/ GetAuditTrailCall(t)

\* One step of the proxy call of thread t.
ThreadStep(t) ==
    \/ CallStep(t)
    \/ ExecuteExcept(t)

ProxyTick == Tick /\ UNCHANGED proxyVars

\* Threads call the proxy concurrently.
Next ==
    \/ ProxyTick
    \/ \E t \in Threads : ThreadStep(t)

Spec == Init /\ [][Next]_vars

\* One call at a time: a single client thread calls the proxy.  The store
\* stays connected between is_connected() and the execution, so that the
\* except branches are not taken.
NextSeq ==
    \/ ProxyTick
    \/ CallStep(1)

SpecSeq == Init /\ [][NextSeq]_vars

\* ------------------------------------------------ direct calls of the cache
CacheGet(query) ==
    /\ \E d \in 0..1 :
        /\ now + d <= MaxTime
        /\ now' = now + d
        /\ LET r == get(qc, query, now, now + d)
           IN /\ qc' = r.c
              /\ stamps' = StampsAfterGet(r.c, get_cache_key(query), r.result # None, now + d)
              /\ res' = [ResInit EXCEPT !.op = "get", !.query = query,
                                        !.key = get_cache_key(query),
                                        !.result = r.result, !.before = KeysInOrder(qc)]
    /\ UNCHANGED proxyVars

CachePut(query, result) ==
    /\ \E d \in 0..1 :
        /\ now + d <= MaxTime
        /\ now' = now + d
        /\ LET c2 == put(qc, query, result, now, now + d)
           IN /\ qc' = c2
              /\ stamps' = StampsAfterPut(c2, query, now, now + d)
              /\ res' = [ResInit EXCEPT !.op = "put", !.query = query,
                                        !.key = get_cache_key(query),
                                        !.before = KeysInOrder(qc)]
    /\ UNCHANGED proxyVars

CacheClear ==
    /\ qc' = clear(qc)
    /\ stamps' = << >>
    /\ res' = [ResInit EXCEPT !.op = "clear", !.before = KeysInOrder(qc)]
    /\ UNCHANGED now
    /\ UNCHANGED proxyVars

NextCache ==
    \/ ProxyTick
    \/ \E q \in CacheQueries : CacheGet(q)
    \/ \E q \in CacheQueries, r \in CacheResults : CachePut(q, r)
    \/ CacheClear

SpecCache == Init /\ [][NextCache]_vars

\* ------------------------------- direct calls of UserPermissions.has_permission
InitPermissions ==
    /\ now = 0
    /\ qc = QueryCacheInit
    /\ stamps = << >>
    /\ res = ResInit
    /\ permissions \in SUBSET PermissionTypes
    /\ real_service = 0
    /\ services = << >>
    /\ logs = << >>
    /\ metrics = MetricsInit
    /\ pc = [t \in Threads |-> "idle"]
    /\ loc = [t \in Threads |-> LocInit]
    /\ ret = [t \in Threads |-> RetInit]
    /\ calls = 0
    /\ writes = [executed |-> 0, returned |-> 0]
    /\ completed = CompletedInit
    /\ editor = TextEditorInit

\* A user with any set of permissions asks has_permission(operation).
HasPermissionCall(operation) ==
    /\ res' = [ResInit EXCEPT !.op = "has_permission", !.query = operation,
                              !.key = operation,
                              !.result = BoolValue(has_permission(permissions, operation))]
    /\ UNCHANGED <<now, qc, stamps>>
    /\ UNCHANGED proxyVars

NextPermissions == \E operation \in PermissionTexts : HasPermissionCall(operation)

SpecPermissions == InitPermissions /\ [][NextPermissions]_vars

\* --------------------------------------------- direct calls of the AuditLogger
\* Threads log for two users at one AuditLogger and read the trails.
UserIds == {"admin_user", "regular_user"}
LogResults == {None, QueryResult(4, 0, 0)}
TransactionOperations == {"BEGIN", "COMMIT", "ROLLBACK"}

\* A thread may read: the first idle one does.
MayRead(t) ==
    /\ pc[t] = "idle"
    /\ \A u \in 1..(t - 1) : pc[u] # "idle"

\* log_entry = {...}: the entry is built before the lock is taken.
LogEntryBuilt(t, log_entry) ==
    /\ MayCall(t)
    /\ calls' = calls + 1
    /\ pc' = [pc EXCEPT ![t] = "a_append"]
    /\ loc' = [loc EXCEPT ![t] = log_entry]
    /\ UNCHANGED <<cacheVars, permissions, real_service, services, logs, metrics, ret,
                   writes, completed, editor>>

LogQueryCall(t, user_id, query, result) ==
    LogEntryBuilt(t, [op |-> "log_query", query |-> query, result |-> result,
                      user_id |-> user_id])

LogConnectionCall(t, user_id, success) ==
    LogEntryBuilt(t, [op |-> "log_connection", user_id |-> user_id, success |-> success])

LogTransactionCall(t, user_id, operation) ==
    LogEntryBuilt(t, [op |-> "log_transaction", operation |-> operation,
                      user_id |-> user_id])

\* A bug of the append: the log keeps its newest records only, the oldest
\* one making room.
LogAppendRotating(t) ==
    /\ pc[t] = "a_append"
    /\ logs' = LET l == CASE loc[t].op = "log_query" ->
                                log_query(logs, loc[t].user_id, loc[t].query, loc[t].result)
                          [] loc[t].op = "log_connection" ->
                                log_connection(logs, loc[t].user_id, loc[t].success)
                          [] loc[t].op = "log_transaction" ->
                                log_transaction(logs, loc[t].user_id, loc[t].operation)
               IN IF Len(l) > 2 THEN Tail(l) ELSE l
    /\ pc' = [pc EXCEPT ![t] = "idle"]
    /\ ret' = [ret EXCEPT ![t] = [op |-> loc[t].op, query |-> << >>, kind |-> "ok",
                                  value |-> None]]
    /\ loc' = [loc EXCEPT ![t] = LocInit]
    /\ UNCHANGED <<cacheVars, permissions, real_service, services, metrics, calls,
                   writes, completed, editor>>

\* with self._lock: self._logs.append(log_entry)
LogAppend(t) ==
    /\ pc[t] = "a_append"
    /\ logs' = CASE loc[t].op = "log_query" ->
                        log_query(logs, loc[t].user_id, loc[t].query, loc[t].result)
                 [] loc[t].op = "log_connection" ->
                        log_connection(logs, loc[t].user_id, loc[t].success)
                 [] loc[t].op = "log_transaction" ->
                        log_transaction(logs, loc[t].user_id, loc[t].operation)
    /\ pc' = [pc EXCEPT ![t] = "idle"]
    /\ ret' = [ret EXCEPT ![t] = [op |-> loc[t].op, query |-> << >>, kind |-> "ok",
                                  value |-> None]]
    /\ loc' = [loc EXCEPT ![t] = LocInit]
    /\ UNCHANGED <<cacheVars, permissions, real_service, services, metrics, calls,
                   writes, completed, editor>>

\* AuditLogger.get_audit_trail(user_id), the whole of it under the lock
AuditTrailCall(t, user_id) ==
    /\ MayRead(t)
    /\ ret' = [ret EXCEPT ![t] = [value |-> get_audit_trail(logs, user_id),
                                  op |-> "get_audit_trail", query |-> << >>,
                                  user_id |-> user_id, kind |-> "ok"]]
    /\ UNCHANGED <<cacheVars, permissions, real_service, services, logs, metrics, pc, loc,
                   calls, writes, completed, editor>>

NextAudit ==
    \E t \in Threads :
        \/ \E user_id \in UserIds, result \in LogResults :
                LogQueryCall(t, user_id, Q_SELECT_USERS, result)
        \/ \E user_id \in UserIds, success \in BOOLEAN :
                LogConnectionCall(t, user_id, success)
        \/ \E user_id \in UserIds, operation \in TransactionOperations :
                LogTransactionCall(t, user_id, operation)
        \/ LogAppend(t)
        \/ \E user_id \in UserIds : AuditTrailCall(t, user_id)

SpecAudit == Init /\ [][NextAudit]_vars

\* ---------------------------------------- direct calls of the MetricsCollector
\* Threads record at one MetricsCollector, read it and reset it.
RecordKinds == {"record_query", "record_cache_hit", "record_cache_miss",
                "record_connection"}
ExecutionTimes == {1, 2}

\* A thread calls a method of the collector and comes to `with self._lock:`;
\* metrics0 is what the counters are at that moment.
MetricsCall(t, op, execution_time) ==
    /\ MayCall(t)
    /\ calls' = calls + 1
    /\ pc' = [pc EXCEPT ![t] = "m_lock"]
    /\ loc' = [loc EXCEPT ![t] = [LocInit EXCEPT !.op = op, !.start_time = execution_time,
                                                 !.metrics0 = metrics]]
    /\ UNCHANGED <<cacheVars, permissions, real_service, services, logs, metrics, ret,
                   writes, completed, editor>>

\* The counters after the body of the method op, begun with the counters m.
Recorded(m, op, execution_time) ==
    CASE op = "record_query" -> record_query(m, execution_time)
      [] op = "record_cache_hit" -> record_cache_hit(m)
      [] op = "record_cache_miss" -> record_cache_miss(m)
      [] op = "record_connection" -> record_connection(m)
      [] op = "reset_metrics" -> reset_metrics(m)
      [] op = "get_metrics" -> m

\* A bug of the updates: no lock is held, and the thread adds to the counters
\* it read when it was called.
MetricsBodyUnlocked(t) ==
    /\ pc[t] = "m_lock"
    /\ metrics' = Recorded(loc[t].metrics0, loc[t].op, loc[t].start_time)
    /\ completed' = IF loc[t].op = "reset_metrics" THEN CompletedInit
                    ELSE IF loc[t].op \in RecordKinds
                         THEN [completed EXCEPT ![loc[t].op] = @ + 1]
                         ELSE completed
    /\ pc' = [pc EXCEPT ![t] = "idle"]
    /\ ret' = [ret EXCEPT ![t] = [op |-> loc[t].op, query |-> << >>, kind |-> "ok",
                                  value |-> IF loc[t].op = "get_metrics"
                                            THEN get_metrics(metrics) ELSE None]]
    /\ loc' = [loc EXCEPT ![t] = LocInit]
    /\ UNCHANGED <<cacheVars, permissions, real_service, services, logs, calls, writes,
                   editor>>

\* The body of the method, the whole of it under the lock.
MetricsBody(t) ==
    /\ pc[t] = "m_lock"
    /\ metrics' = Recorded(metrics, loc[t].op, loc[t].start_time)
    /\ completed' = IF loc[t].op = "reset_metrics" THEN CompletedInit
                    ELSE IF loc[t].op \in RecordKinds
                         THEN [completed EXCEPT ![loc[t].op] = @ + 1]
                         ELSE completed
    /\ pc' = [pc EXCEPT ![t] = "idle"]
    /\ ret' = [ret EXCEPT ![t] = [op |-> loc[t].op, query |-> << >>, kind |-> "ok",
                                  value |-> IF loc[t].op = "get_metrics"
                                            THEN get_metrics(metrics) ELSE None]]
    /\ loc' = [loc EXCEPT ![t] = LocInit]
    /\ UNCHANGED <<cacheVars, permissions, real_service, services, logs, calls, writes,
                   editor>>

NextMetrics ==
    \E t \in Threads :
        \/ \E op \in RecordKinds \ {"record_query"} : MetricsCall(t, op, 0)
        \/ \E execution_time \in ExecutionTimes :
                MetricsCall(t, "record_query", execution_time)
        \/ MetricsCall(t, "get_metrics", 0)
        \/ MetricsCall(t, "reset_metrics", 0)
        \/ MetricsBody(t)

SpecMetrics == Init /\ [][NextMetrics]_vars

\* ------------------------------------ the locks taken by the proxy operations
\* What a proxy operation does with the locks of its components, step by
\* step: `with self._lock:` of a component takes its lock and gives it back,
\* a call of the store takes none.
with(lock) == <<[lock |-> lock, do |-> "acquire"], [lock |-> lock, do |-> "release"]>>
store_call == <<[lock |-> "none", do |-> "store"]>>

\* A bug of put: _evict_oldest takes the lock of the cache that put holds.
put_locks_evict_locking ==
    <<[lock |-> "cache", do |-> "acquire"], [lock |-> "cache", do |-> "acquire"],
      [lock |-> "cache", do |-> "release"], [lock |-> "cache", do |-> "release"]>>

\* QueryCache.put: one `with self._lock:`, _evict_oldest running inside it
\* without taking a lock.
put_locks == with("cache")

\* DatabaseProxy.connect: store.connect(), log_connection, and
\* record_connection after a success.
connect_locks(success) ==
    store_call \o with("audit") \o (IF success THEN with("metrics") ELSE << >>)

\* The operations of the proxy, along each of their branches.
LockPlans ==
    {   \* execute_query: denied
        << >>,
        \* execute_query: cache hit
        with("cache") \o with("metrics") \o with("audit"),
        \* execute_query: miss, connected store, SELECT
        with("cache") \o with("metrics") \o store_call \o store_call
            \o with("metrics") \o put_locks \o with("audit"),
        \* execute_query: miss, lazy connect, SELECT
        with("cache") \o with("metrics") \o store_call \o connect_locks(TRUE)
            \o store_call \o with("metrics") \o put_locks \o with("audit"),
        \* execute_query: miss, lazy connect fails
        with("cache") \o with("metrics") \o store_call \o connect_locks(FALSE),
        \* execute_query: miss, the store raises
        with("cache") \o with("metrics") \o store_call \o store_call \o with("audit"),
        \* execute_update: connected store, clear, record_query, log_query
        store_call \o store_call \o with("cache") \o with("metrics") \o with("audit"),
        \* commit_transaction: store, log_transaction, clear
        store_call \o with("audit") \o with("cache"),
        \* begin_transaction, rollback_transaction: store, log_transaction
        store_call \o with("audit"),
        \* connect
        connect_locks(TRUE),
        \* get_metrics_report
        with("metrics"),
        \* get_audit_trail
        with("audit") }

\* A thread enters an operation of the proxy.
LockCall(t, plan) ==
    /\ MayCall(t)
    /\ calls' = calls + 1
    /\ pc' = [pc EXCEPT ![t] = "l_run"]
    /\ loc' = [loc EXCEPT ![t] = [op |-> "locks", plan |-> plan, held |-> << >>]]
    /\ UNCHANGED <<cacheVars, permissions, real_service, services, logs, metrics, ret,
                   writes, completed, editor>>

\* The lock is held by no thread: threading.Lock is not reentrant.
LockFree(lock) == \A u \in Threads : pc[u] = "l_run" => \A i \in 1..Len(loc[u].held) :
                                                            loc[u].held[i] # lock

\* The next step of the operation of thread t: it takes a lock that is free,
\* gives back the lock it took last, or calls the store.
LockStep(t) ==
    /\ pc[t] = "l_run"
    /\ loc[t].plan # << >>
    /\ LET step == Head(loc[t].plan)
       IN \/ /\ step.do = "acquire"
             /\ LockFree(step.lock)
             /\ loc' = [loc EXCEPT ![t].plan = Tail(@), ![t].held = Append(@, step.lock)]
          \/ /\ step.do = "release"
             /\ loc' = [loc EXCEPT ![t].plan = Tail(@),
                                   ![t].held = SubSeq(@, 1, Len(@) - 1)]
          \/ /\ step.do = "store"
             /\ loc' = [loc EXCEPT ![t].plan = Tail(@)]
    /\ UNCHANGED <<cacheVars, permissions, real_service, services, logs, metrics, pc, ret,
                   calls, writes, completed, editor>>

\* The operation returns or raises.
LockReturn(t) ==
    /\ pc[t] = "l_run"
    /\ loc[t].plan = << >>
    /\ pc' = [pc EXCEPT ![t] = "idle"]
    /\ ret' = [ret EXCEPT ![t] = [value |-> None, op |-> "locks", query |-> << >>,
                                  kind |-> "ok"]]
    /\ loc' = [loc EXCEPT ![t] = LocInit]
    /\ UNCHANGED <<cacheVars, permissions, real_service, services, logs, metrics, calls,
                   writes, completed, editor>>

LockRun(t) == LockStep(t) \/ LockReturn(t)

NextLocks ==
    \E t \in Threads :
        \/ \E plan \in LockPlans : LockCall(t, plan)
        \/ LockStep(t)
        \/ LockReturn(t)

\* A thread that can take its next step takes it: the store calls return,
\* and a lock that stays free is taken by the thread that waits for it.
SpecLocks == Init /\ [][NextLocks]_vars /\ \A t \in Threads : WF_vars(LockRun(t))

\* The editor is alone: no proxy is called.
InitEditor == Init /\ permissions = {"ADMIN"}

SpecEditor == InitEditor /\ [][NextEditor]_vars

\* ================================================================== claims
\* str.lower() of one character
FoldCase(ch) == lower(<<ch>>)[1]

\* The texts a and b differ only in letter case and in leading or trailing
\* whitespace: without some leading and trailing whitespace they have the same
\* length and, position by position, the same letter whatever its case.
DifferOnlyInCaseAndBlanks(a, b) ==
    \E la \in 0..Len(a), lb \in 0..Len(b) :
        \E n \in 0..(Len(a) - la) :
            /\ lb + n <= Len(b)
            /\ \A i \in 1..la : a[i] \in Whitespace
            /\ \A i \in 1..lb : b[i] \in Whitespace
            /\ \A i \in (la + n + 1)..Len(a) : a[i] \in Whitespace
            /\ \A i \in (lb + n + 1)..Len(b) : b[i] \in Whitespace
            /\ \A i \in 1..n : FoldCase(a[la + i]) = FoldCase(b[lb + i])

\* The step is the denial of a call of execute_query or execute_update of t.
DeniedStep(t) ==
    \E q \in Queries :
        /\ ~check_permissions(q)
        /\ ExecuteQueryCall(t, q) \/ ExecuteUpdateCall(t, q)

\* The step ends a call of thread t: the call returns or raises.
CallEnds(t) ==
    /\ pc'[t] = "idle"
    /\ pc[t] # "idle" \/ calls' = calls + 1

\* The number of audit records when the call that ends in this step began.
LogsAtCall(t) == IF pc[t] = "idle" THEN Len(logs) ELSE loc[t].log0

\* C1: a denied execute_query or execute_update fails with a permission error
\* and leaves the cache, the metrics, the store handle and the store as they
\* were.
C1_DeniedCallTouchesNothing ==
    [][\A t \in Threads :
        DeniedStep(t) =>
            /\ ret'[t].kind = "PermissionError"
            /\ UNCHANGED <<qc, metrics, real_service, services>>]_vars

\* C1 witness: a call was denied on a proxy that has a cached result, counted
\* metrics and a store handle.
C1_Witness ==
    /\ pc[1] = "idle"
    /\ ret[1].kind = "PermissionError"
    /\ DOMAIN qc.cache # {}
    /\ metrics.cache_misses > 0
    /\ real_service # 0 /\ services[real_service].connected

\* C2: every denied execute_query or execute_update appends exactly one audit
\* record of the calling actor, with success = false and rows_returned = 0.
C2_DeniedCallIsAudited ==
    [][\A t \in Threads :
        DeniedStep(t) =>
            /\ Len(logs') = Len(logs) + 1
            /\ logs'[Len(logs')].user_id = UserId
            /\ logs'[Len(logs')].success = FALSE
            /\ logs'[Len(logs')].rows_returned = 0]_vars

AuditedOperations == {"execute_query", "execute_update", "begin_transaction",
                      "commit_transaction", "rollback_transaction"}

\* C3: every attempted execute_query, execute_update, begin_transaction,
\* commit_transaction or rollback_transaction, whatever its outcome, has
\* appended exactly one audit record when it ends.
C3_OneAuditRecordPerCall ==
    [][\A t \in Threads :
        (CallEnds(t) /\ ret'[t].op \in AuditedOperations) =>
            Len(logs') = LogsAtCall(t) + 1]_vars

\* C4: when an approved execute_update that the store executed returns, or a
\* commit_transaction that succeeded, the cache is empty, whatever the text.
C4_CacheEmptyAfterUpdateOrCommit ==
    [][\A t \in Threads :
        (/\ CallEnds(t)
         /\ \/ ret'[t].op = "execute_update" /\ ret'[t].kind = "ok"
            \/ ret'[t].op = "commit_transaction" /\ ret'[t].value = BoolValue(TRUE)) =>
            DOMAIN qc'.cache = {}]_vars

\* The text is an INSERT, UPDATE, DELETE, CREATE, ALTER or DROP.
IsWriteText(query) ==
    \E kw \in {KW_INSERT, KW_UPDATE, KW_DELETE, KW_CREATE, KW_ALTER, KW_DROP} :
        startswith(OperationUpper[query], kw)

\* C5: when an execute_query or execute_update of a write-class text that the
\* store executed returns, no entry is left in the cache.
C5_WriteClearsCache ==
    [][\A t \in Threads :
        (/\ CallEnds(t)
         /\ ret'[t].op \in {"execute_query", "execute_update"}
         /\ ret'[t].kind = "ok"
         /\ IsWriteText(ret'[t].query)) =>
            DOMAIN qc'.cache = {}]_vars

\* C6: once an execute_update (of a text that is no SELECT) has returned, the
\* cache holds no result that the store produced before it executed that
\* update.
C6_NoStaleResultAfterWrite ==
    \A k \in DOMAIN qc.cache : qc.cache[k].result.seen >= writes.returned

\* C7: the store handle is created at most once, and at most one thread at a
\* time is connecting the store.
C7_OneHandleOneConnect ==
    /\ Len(services) <= 1
    /\ Cardinality({t \in Threads : pc[t] = "c_connecting"}) <= 1

K_users == get_cache_key(Q_SELECT_USERS)
K_products == get_cache_key(Q_SELECT_PRODUCTS)
K_x == get_cache_key(Q_SELECT_X)

\* C8: after any sequence of QueryCache.get, put and clear calls the cache
\* never holds more than max_size entries.
C8_CacheWithinCapacity == Cardinality(DOMAIN qc.cache) <= max_size

\* C8 witness: a put into a full cache has returned and the cache is full.
C8_Witness ==
    /\ res.op = "put"
    /\ Len(res.before) = max_size
    /\ res.key \notin {res.before[i] : i \in 1..Len(res.before)}
    /\ Cardinality(DOMAIN qc.cache) = max_size

\* The cached keys whose last use (their put, or their last hit in get) is
\* the earliest.
LeastRecentlyUsed == {x \in DOMAIN qc.cache :
                        \A y \in DOMAIN qc.cache : stamps[x].used <= stamps[y].used}

\* C9: a put into a cache that holds exactly max_size entries removes exactly
\* one entry, one whose last use (by put or by a hit in get) is the earliest,
\* leaves the other entries as they were, and the put entry is present
\* afterwards.
C9_PutEvictsLeastRecentlyUsed ==
    [][\A q \in CacheQueries, r \in CacheResults :
        (CachePut(q, r) /\ Cardinality(DOMAIN qc.cache) = max_size) =>
            \E v \in LeastRecentlyUsed :
                /\ DOMAIN qc'.cache = (DOMAIN qc.cache \ {v}) \cup {get_cache_key(q)}
                /\ qc'.cache[get_cache_key(q)].result = r
                /\ \A x \in DOMAIN qc.cache \ {v, get_cache_key(q)} :
                       qc'.cache[x] = qc.cache[x]]_vars

\* C9 witness: the scenario of the capacity example: A was put before B, A was
\* hit, and the put of C into the full cache evicted B and left exactly {A, C}.
C9_Witness ==
    /\ res.op = "put"
    /\ res.key = K_x
    /\ res.before = <<K_users, K_products>>
    /\ Len(res.before) = max_size
    /\ DOMAIN qc.cache = {K_users, K_x}
    /\ stamps[K_users].hit

\* C10: QueryCache.get never returns an entry whose age, counted from its
\* put, has reached the time to live; such a lookup returns None and removes
\* the entry (hits do not extend the lifetime of an entry).
C10_GetNeverReturnsExpired ==
    [][\A q \in CacheQueries :
        CacheGet(q) =>
            LET k == get_cache_key(q)
            IN /\ res'.result # None =>
                      /\ k \in DOMAIN stamps
                      /\ now - stamps[k].put < ttl_seconds
               /\ (k \in DOMAIN qc.cache /\ now - stamps[k].put >= ttl_seconds) =>
                      /\ res'.result = None
                      /\ k \notin DOMAIN qc'.cache
                      /\ k \notin OrdKeys(qc'.access_times)]_vars

\* C10 witness: a get found its entry expired, returned None and removed it.
C10_Witness ==
    /\ res.op = "get"
    /\ res.result = None
    /\ res.key \in {res.before[i] : i \in 1..Len(res.before)}
    /\ res.key \notin DOMAIN qc.cache

\* Thread t is in an execute_query of a SELECT text, and its previous call was
\* an execute_query of the same canonical text that returned a result; no
\* other call came between the two.
SecondRead(t) ==
    /\ pc[t] # "idle"
    /\ loc[t].op = "execute_query"
    /\ is_select(loc[t].query)
    /\ ret[t].op = "execute_query"
    /\ ret[t].kind = "ok"
    /\ get_cache_key(ret[t].query) = get_cache_key(loc[t].query)

\* C11: an execute_query of a SELECT text that follows an execute_query of the
\* same canonical text, with no call in between and its lookup within the
\* time to live of the entry, hits the cache: it returns the result of the
\* first call, never fetches the store handle, and of the metrics only
\* cache_hits changes, by one.
C11_SecondReadIsACacheHit ==
    [][\A t \in Threads :
        /\ (/\ SecondRead(t)
            /\ QueryCacheGet(t)
            /\ LET k == get_cache_key(loc[t].query)
               IN k \in DOMAIN stamps => now - stamps[k].put < ttl_seconds) =>
                /\ pc'[t] = "q_hit_metric"
                /\ loc'[t].result = ret[t].value
        /\ (SecondRead(t) /\ QueryHitLog(t)) =>
                /\ ret'[t].kind = "ok"
                /\ ret'[t].value = ret[t].value
                /\ loc[t].real_service = 0
                /\ metrics' = [loc[t].metrics0 EXCEPT !.cache_hits = @ + 1]]_vars

\* C11 witness: the first call missed and the store answered it; the second
\* call, of another text with the same canonical text, returned from the cache.
C11_Witness ==
    /\ calls = 2
    /\ pc[1] = "idle"
    /\ ret[1].op = "execute_query" /\ ret[1].kind = "ok"
    /\ ret[1].query = Q_select_users_sp
    /\ metrics.cache_misses = 1 /\ metrics.query_count = 1
    /\ metrics.cache_hits = 1

\* The step is an execution by store i with effect: the store answers a query
\* or an update of thread t, or its transaction begins, commits or rolls back.
StoreActs(t, i) ==
    \/ /\ pc[t] \in {"q_execute", "u_execute"}
       /\ loc[t].real_service = i
       /\ pc'[t] \in {"q_record", "u_clear", "u_record"}
    \/ /\ pc[t] # pc'[t] \/ calls' = calls + 1
       /\ services'[i].in_transaction # services[i].in_transaction

\* C12: the proxy never has the store execute a query or an update, or begin,
\* commit or roll back a transaction, while the store is not connected.
C12_StoreActsOnlyWhenConnected ==
    [][\A t \in Threads : \A i \in 1..Len(services) :
        StoreActs(t, i) => services[i].connected]_vars

\* C13: a begin_transaction that finds the store not connected attempts a
\* connect first (it returns False only after a connect attempt), and after a
\* connect that succeeded it begins the transaction, audits TRANSACTION_BEGIN
\* and returns True.
C13_BeginEnsuresConnection ==
    [][\A t \in Threads :
        (CallEnds(t) /\ ret'[t].op = "begin_transaction") =>
            LET n == LogsAtCall(t)
                attempted == Len(logs') > n /\ logs'[n + 1].operation = "CONNECTION"
            IN /\ ~attempted => ret'[t].value = BoolValue(TRUE)
               /\ (attempted /\ logs'[n + 1].success) =>
                      /\ ret'[t].value = BoolValue(TRUE)
                      /\ logs'[Len(logs')].operation = "TRANSACTION_BEGIN"]_vars

\* No transaction is open: none was begun, or the last one begun was
\* committed or rolled back.
NoOpenTransaction == real_service = 0 \/ ~services[real_service].in_transaction

\* C14: a commit_transaction with no open transaction fails with a
\* transaction-state error and leaves the cache as it was; a commit_transaction
\* with an open transaction returns True, audits TRANSACTION_COMMIT and leaves
\* the cache empty.
C14_CommitNeedsOpenTransaction ==
    [][\A t \in Threads :
        /\ (CommitCall(t) /\ NoOpenTransaction) =>
                /\ pc'[t] = "idle"
                /\ ret'[t].kind = "TransactionStateError"
                /\ qc' = qc
        /\ (CallEnds(t) /\ pc[t] # "idle" /\ ret'[t].op = "commit_transaction") =>
                /\ ret'[t].kind = "ok" /\ ret'[t].value = BoolValue(TRUE)
                /\ DOMAIN qc'.cache = {}
                /\ Len(logs') = LogsAtCall(t) + 1
                /\ logs'[Len(logs')].operation = "TRANSACTION_COMMIT"]_vars

\* C15: no step of a rollback_transaction changes the cache, whether the call
\* returns False or rolls back, audits TRANSACTION_ROLLBACK and returns True.
C15_RollbackLeavesCache ==
    [][\A t \in Threads :
        /\ (RollbackCall(t) \/ RollbackLog(t)) => qc' = qc
        /\ (CallEnds(t) /\ ret'[t].op = "rollback_transaction") =>
                IF ret'[t].value = BoolValue(TRUE)
                THEN /\ Len(logs') = LogsAtCall(t) + 1
                     /\ logs'[Len(logs')].operation = "TRANSACTION_ROLLBACK"
                ELSE /\ ret'[t].value = BoolValue(FALSE)
                     /\ NoOpenTransaction]_vars

\* C15 witness: a rollback_transaction rolled back while a result was cached.
C15_Witness ==
    /\ pc[1] = "idle"
    /\ ret[1].op = "rollback_transaction"
    /\ ret[1].value = BoolValue(TRUE)
    /\ DOMAIN qc.cache # {}

\* C16: has_permission answers True to a user that holds ADMIN, whatever the
\* operation text.
C16_AdminIsAuthorizedForAll ==
    (res.op = "has_permission" /\ "ADMIN" \in permissions) =>
        res.result = BoolValue(TRUE)

\* The step ends an execute_query or execute_update of thread t whose lazy
\* connect failed.
LazyConnectFails(t) ==
    /\ ConnectLog(t)
    /\ ~loc[t].success
    /\ loc[t].op \in {"execute_query", "execute_update"}

\* C17: when the lazy connect of an execute_query or execute_update fails, the
\* call raises the connection failure, one audit record, with success = false,
\* was written for the call, the cache holds no entry of the call, query_count
\* and connection_count are as they were when the call began, and the store
\* has executed nothing (the call holds no result).
C17_FailedLazyConnect ==
    [][\A t \in Threads :
        LazyConnectFails(t) =>
            /\ ret'[t].kind = "RuntimeError"
            /\ ret'[t].value = StrValue("Failed to connect to database")
            /\ Len(logs') = loc[t].log0 + 1
            /\ logs'[Len(logs')].success = FALSE
            /\ qc' = qc
            /\ loc[t].op = "execute_query" =>
                   get_cache_key(loc[t].query) \notin DOMAIN qc'.cache
            /\ metrics'.query_count = loc[t].metrics0.query_count
            /\ metrics'.connection_count = loc[t].metrics0.connection_count
            /\ loc[t].result = None
            /\ services' = services /\ writes' = writes]_vars

\* C17 witness: an execute_update failed on its lazy connect, on a proxy that
\* had answered a query before and still caches its result.
C17_Witness ==
    /\ pc[1] = "idle"
    /\ ret[1].op = "execute_update"
    /\ ret[1].kind = "RuntimeError"
    /\ ret[1].value = StrValue("Failed to connect to database")
    /\ metrics.query_count = 1 /\ metrics.connection_count = 1
    /\ DOMAIN qc.cache # {}

\* C18: when the store raises in an execute_query or execute_update, the call
\* raises the error of the store, appends one audit record with success =
\* false and rows_returned = 0, inserts nothing into the cache and clears
\* nothing (the call holds no result and the cache is as it was), and counts
\* no query.
C18_StoreErrorIsPropagated ==
    [][\A t \in Threads :
        ExecuteExcept(t) =>
            /\ ret'[t].kind = "RuntimeError"
            /\ ret'[t].value = StrValue("Not connected to database")
            /\ Len(logs') = Len(logs) + 1
            /\ logs'[Len(logs')].operation = "QUERY"
            /\ logs'[Len(logs')].query = loc[t].query
            /\ logs'[Len(logs')].success = FALSE
            /\ logs'[Len(logs')].rows_returned = 0
            /\ qc' = qc
            /\ loc[t].result = None /\ loc[t].wrote = 0
            /\ metrics' = metrics]_vars

\* C18 witness: the store was disconnected under a call that had found it
\* connected, and the call raised the error of the store.
C18_Witness ==
    \E t \in Threads :
        /\ pc[t] = "idle"
        /\ ret[t].kind = "RuntimeError"
        /\ ret[t].value = StrValue("Not connected to database")
        /\ logs # << >> /\ logs[Len(logs)].success = FALSE

\* C19: a call of execute_query or execute_update calls connect() of the
\* store at most once and has the store execute at most once.
C19_NoRetry ==
    \A t \in Threads :
        loc[t].op \in {"execute_query", "execute_update"} =>
            loc[t].connects <= 1 /\ loc[t].executes <= 1

\* C19 witness: the one connect attempt of an execute_query has failed, and
\* the call is about to audit it and raise.
C19_Witness ==
    /\ pc[1] = "c_log"
    /\ loc[1].op = "execute_query"
    /\ ~loc[1].success
    /\ loc[1].connects = 1

\* C20: an execute_query or execute_update that finds the store not connected
\* (also after an earlier connect failed) calls connect() and, when the connect
\* succeeds, goes on to the execution; and once the handle of the store exists
\* it is never reset nor replaced.
C20_ConnectionLifecycle ==
    [][/\ real_service # 0 => real_service' = real_service
       /\ \A t \in Threads :
            /\ (EnsureConnected(t) /\ ~services[loc[t].real_service].connected) =>
                   pc'[t] = "svc_check" /\ loc'[t].in_connect
            /\ (ConnectMetric(t) /\ loc[t].op \in {"execute_query", "execute_update"}) =>
                   /\ pc'[t] = ExecutePc(loc[t].op)
                   /\ services[loc[t].conn_service].connected]_vars

\* The step creates no store handle and connects no store.
NoStoreNeeded ==
    /\ real_service' = real_service
    /\ Len(services') = Len(services)
    /\ \A i \in 1..Len(services) : services'[i].connected => services[i].connected
    /\ metrics'.connection_count = metrics.connection_count

\* C21: a proxy on which nothing was called has no store handle; is_connected,
\* disconnect, get_metrics_report, get_audit_trail, a denied operation and
\* every step of a cache hit create no handle and connect nothing; the
\* accessors return in every connection state, and an execute_query that hits
\* the cache returns without having fetched the handle or called connect().
C21_LazyInitialization ==
    [][/\ calls = 0 => (real_service = 0 /\ services = << >>)
       /\ \A t \in Threads :
            /\ (\/ IsConnectedCall(t) \/ DisconnectCall(t)
                \/ GetMetricsReportCall(t) \/ GetAuditTrailCall(t)
                \/ DeniedStep(t)
                \/ QueryCacheGet(t) /\ pc'[t] = "q_hit_metric"
                \/ QueryHitMetric(t) \/ QueryHitLog(t)) => NoStoreNeeded
            /\ (IsConnectedCall(t) \/ GetMetricsReportCall(t) \/ GetAuditTrailCall(t)) =>
                   pc'[t] = "idle" /\ ret'[t].kind = "ok"
            /\ QueryHitLog(t) =>
                   /\ ret'[t].kind = "ok"
                   /\ loc[t].real_service = 0 /\ loc[t].connects = 0]_vars

\* C21 witness: an execute_query was answered from the cache while the store
\* was disconnected.
C21_Witness ==
    /\ pc[1] = "idle"
    /\ ret[1].op = "execute_query" /\ ret[1].kind = "ok"
    /\ metrics.cache_hits = 1
    /\ real_service # 0 /\ ~services[real_service].connected

\* C22: when the cache holds the entry that put stored for a text, within its
\* time to live, a get of another text that differs from it only in letter
\* case and in leading or trailing whitespace returns the stored result.
C22_CacheKeysAreCanonical ==
    [][\A q1 \in CacheQueries : \A q2 \in CacheQueries \ {q1} :
        LET k == get_cache_key(q1)
        IN (/\ k \in DOMAIN stamps
            /\ stamps[k].query = q1
            /\ now - stamps[k].put < ttl_seconds
            /\ CacheGet(q2)
            /\ DifferOnlyInCaseAndBlanks(q1, q2)) =>
               res'.result = qc.cache[k].result]_vars

\* C22 witness: "SELECT users" was put, and the get of " Select Users<tab>"
\* returned its result.
C22_Witness ==
    /\ res.op = "get"
    /\ res.query = Q_sp_Select_Users_tab
    /\ K_users \in DOMAIN stamps
    /\ stamps[K_users].query = Q_SELECT_USERS
    /\ stamps[K_users].hit
    /\ res.result = qc.cache[K_users].result

\* The items a client reads from a list it was given: a list of its own keeps
\* its items, the list AuditLogger._logs itself shows what the logger holds.
ListItems(v) == IF v.type = "list" THEN v.items ELSE logs

\* C23: the audit log is append-only: every step leaves the stored records in
\* place and unchanged, so the length never decreases, and the list an
\* earlier get_audit_trail returned reads the same after later appends.
C23_AuditLogAppendOnly ==
    [][/\ Len(logs') >= Len(logs)
       /\ SubSeq(logs', 1, Len(logs)) = logs
       /\ \A t \in Threads :
            (ret[t].op = "get_audit_trail" /\ ret'[t] = ret[t]) =>
                ListItems(ret[t].value)' = ListItems(ret[t].value)]_vars

\* A trail of one record was returned, and the same user has two records now.
C23_Witness ==
    \E t \in Threads :
        /\ ret[t].op = "get_audit_trail"
        /\ Len(ret[t].value.items) = 1
        /\ Len(get_audit_trail(logs, ret[t].user_id).items) = 2
        /\ Len(logs) = 3

\* The places in the log of the records of user_id.
RecordsOf(user_id) == {i \in 1..Len(logs) : logs[i].user_id = user_id}

\* C24: get_audit_trail(user_id) returns the records of user_id and no other:
\* as many items as the log has records of that user, the j-th item being the
\* j-th of them in the log, whatever the other threads are in the middle of.
C24_AuditTrailOfActor ==
    [][\A t \in Threads : \A user_id \in UserIds :
        AuditTrailCall(t, user_id) =>
            LET items == ret'[t].value.items
                at == RecordsOf(user_id)
            IN /\ Len(items) = Cardinality(at)
               /\ \A j \in 1..Len(items) :
                    \E i \in at : /\ Cardinality({h \in at : h < i}) = j - 1
                                  /\ items[j] = logs[i]]_vars

\* A trail was read while another thread was about to append a record of the
\* same user, the log holding a record of each user.
C24_Witness ==
    \E t \in Threads : \E u \in Threads \ {t} :
        /\ ret[t].op = "get_audit_trail"
        /\ pc[u] = "a_append"
        /\ loc[u].user_id = ret[t].user_id
        /\ Len(ret[t].value.items) = 1
        /\ Len(logs) = 2

\* C25: the collector loses no update: after every step each counter is the
\* number of calls of its kind that completed since the last reset_metrics,
\* and the counts get_metrics returns are those of the one moment it ran.
C25_MetricsLoseNoUpdate ==
    [][/\ metrics'.query_count = completed'.record_query
       /\ metrics'.cache_hits = completed'.record_cache_hit
       /\ metrics'.cache_misses = completed'.record_cache_miss
       /\ metrics'.connection_count = completed'.record_connection
       /\ \A t \in Threads :
            (MetricsBody(t) /\ loc[t].op = "get_metrics") =>
                /\ ret'[t].value.total_queries = completed.record_query
                /\ ret'[t].value.cache_hits = completed.record_cache_hit
                /\ ret'[t].value.cache_misses = completed.record_cache_miss
                /\ ret'[t].value.total_connections = completed.record_connection]_vars

\* Two threads were in record_cache_hit at once, and both hits are counted.
C25_Witness ==
    /\ ret[1].op = "record_cache_hit"
    /\ ret[2].op = "record_cache_hit"
    /\ metrics.cache_hits = 2

\* C26: get_metrics never divides by zero: it returns its report whatever the
\* counters are, with a hit rate of 0 when no hit and no miss is counted and
\* an average execution time of 0 when no query is counted.
C26_MetricsNeverDivideByZero ==
    [][\A t \in Threads :
        (MetricsBody(t) /\ loc[t].op = "get_metrics") =>
            /\ ret'[t].value.type = "dict"
            /\ (metrics.cache_hits + metrics.cache_misses = 0) =>
                    ret'[t].value.cache_hit_rate = 0
            /\ (metrics.query_count = 0) =>
                    ret'[t].value.average_execution_time = 0]_vars

\* One thread reset the collector and the other read it: both quotients are 0.
C26_Witness ==
    /\ ret[1].op = "reset_metrics"
    /\ ret[2].op = "get_metrics"
    /\ ret[2].value.type = "dict"
    /\ ret[2].value.total_queries = 0
    /\ ret[2].value.cache_hit_rate = 0
    /\ ret[2].value.average_execution_time = 0

\* C27: when several entries of a full cache share the smallest last-use
\* time, put evicts the one of them that entered the cache first (a put of a
\* key already cached replaces its value in place and is no new entry), and
\* no other.
C27_TieEvictsEarliestInserted ==
    [][\A q \in CacheQueries, r \in CacheResults :
        (/\ CachePut(q, r)
         /\ Cardinality(DOMAIN qc.cache) >= max_size
         /\ Cardinality(LeastRecentlyUsed) > 1) =>
            LET v == CHOOSE x \in LeastRecentlyUsed :
                        \A y \in LeastRecentlyUsed : stamps[x].entered <= stamps[y].entered
            IN /\ DOMAIN qc'.cache = (DOMAIN qc.cache \ {v}) \cup {get_cache_key(q)}
               /\ v = get_cache_key(q) =>
                    stamps'[v].entered = Cardinality(DOMAIN qc'.cache)]_vars

\* Two keys were put and used within one reading of the clock, and the put of
\* a third key into the full cache evicted the one put first.
C27_Witness ==
    /\ now = 0
    /\ res.op = "put"
    /\ res.key = K_x
    /\ res.before = <<K_users, K_products>>
    /\ DOMAIN qc.cache = {K_products, K_x}
    /\ stamps[K_products].entered = 1

\* The texts of the proxy calls that read.
SelectTexts == {Q_SELECT_USERS, Q_select_users_sp}

\* C28: only successful read results are cached: a step that adds a cache
\* entry or replaces one is the put of an execute_query call whose text is a
\* SELECT, which the permission check lets pass and for which the store
\* returned the result that is put; so every cached entry holds the result of
\* a SELECT text.
C28_OnlyReadResultsCached ==
    [][/\ \A k \in DOMAIN qc'.cache :
            (k \notin DOMAIN qc.cache \/ qc'.cache[k] # qc.cache[k]) =>
                \E t \in Threads :
                    /\ pc[t] = "q_put" /\ pc'[t] = "q_log"
                    /\ loc[t].op = "execute_query"
                    /\ loc[t].query \in SelectTexts
                    /\ has_permission(permissions, loc[t].query)
                    /\ loc[t].executes > 0
                    /\ loc[t].result.type = "QueryResult"
                    /\ k = get_cache_key(loc[t].query)
                    /\ qc'.cache[k].result = loc[t].result
       /\ \A k \in DOMAIN qc'.cache :
            /\ stamps'[k].query \in SelectTexts
            /\ qc'.cache[k].result.type = "QueryResult"]_vars

\* An execute_query of a text that is no SELECT returned the result of the
\* store, and the cache holds the result of an earlier SELECT only.
C28_Witness ==
    \E t \in Threads :
        /\ ret[t].op = "execute_query"
        /\ ret[t].query = Q_UPDATE_USERS
        /\ ret[t].kind = "ok"
        /\ DOMAIN qc.cache = {K_users}
        /\ stamps[K_users].query \in SelectTexts

\* The permission that the kind of an operation asks for, the kind being the
\* keyword the text begins with, in either case; "none" for a text that
\* begins with none of the keywords.
PermissionOfKind(operation) ==
    CASE operation \in {Q_SELECT_USERS, Q_select_users_sp} -> "SELECT"
      [] operation = Q_insert_x -> "INSERT"
      [] operation = Q_UPDATE_USERS -> "UPDATE"
      [] operation = Q_DELETE_X -> "DELETE"
      [] operation \in {Q_CREATE_X, Q_Alter_x, Q_DROP_X} -> "DDL"
      [] OTHER -> "none"

\* C29: for a user without ADMIN, has_permission answers True exactly when the
\* user holds the permission of the kind of the operation (SELECT, INSERT,
\* UPDATE, DELETE, and DDL for CREATE, ALTER and DROP); the call changes
\* nothing but what it returns, and asked again about the same operation it
\* answers the same.
C29_PermissionOfTheKind ==
    [][\A operation \in PermissionTexts :
        HasPermissionCall(operation) =>
            /\ ("ADMIN" \notin permissions /\ PermissionOfKind(operation) # "none") =>
                    res'.result = BoolValue(PermissionOfKind(operation) \in permissions)
            /\ permissions' = permissions
            /\ UNCHANGED <<now, qc, stamps, real_service, services, logs, metrics, pc,
                           loc, ret, calls, writes, completed, editor>>
            /\ (res.op = "has_permission" /\ res.query = operation) =>
                    res'.result = res.result]_vars

\* A user who holds SELECT and UPDATE and no other permission was refused a
\* DELETE.
C29_Witness ==
    /\ permissions = {"SELECT", "UPDATE"}
    /\ res.op = "has_permission"
    /\ res.query = Q_DELETE_X
    /\ res.result = BoolValue(FALSE)

\* The access time the cache keeps for the key k.
AccessTimeOf(c, k) ==
    LET i == CHOOSE i \in 1..Len(c.access_times) : c.access_times[i].key = k
    IN c.access_times[i].time

\* C30: a hit in get leaves the entries, their results and the times they were
\* put as they are, and the access time of every entry but the one returned;
\* a get of a key that is not cached changes nothing in the cache.
C30_GetHitChangesOneAccessTime ==
    [][\A q \in CacheQueries :
        CacheGet(q) =>
            LET k == get_cache_key(q)
            IN /\ res'.result # None =>
                    /\ qc'.cache = qc.cache
                    /\ OrdKeys(qc'.access_times) = OrdKeys(qc.access_times)
                    /\ \A x \in DOMAIN qc.cache \ {k} :
                            AccessTimeOf(qc', x) = AccessTimeOf(qc, x)
               /\ k \notin DOMAIN qc.cache => (qc' = qc /\ res'.result = None)]_vars

\* A get hit one of two cached entries at a later reading of the clock: its
\* last use is later than that of the other entry.
C30_Witness ==
    /\ res.op = "get"
    /\ res.result # None
    /\ Cardinality(DOMAIN qc.cache) = 2
    /\ \E x \in DOMAIN qc.cache \ {res.key} :
            /\ AccessTimeOf(qc, x) = 0
            /\ AccessTimeOf(qc, res.key) = 1

\* C38: the cache keeps its two maps in step: after every get, put and clear
\* the keys that have a result are the keys that have an access time, each
\* once.
C38_CacheMapsInStep ==
    /\ DOMAIN qc.cache = OrdKeys(qc.access_times)
    /\ Len(qc.access_times) = Cardinality(OrdKeys(qc.access_times))

\* A get found one of two cached entries expired and removed it: the other
\* entry is the only key of both maps.
C38_Witness ==
    /\ res.op = "get"
    /\ res.result = None
    /\ Len(res.before) = 2
    /\ \E i \in 1..2 : res.before[i] = res.key
    /\ Cardinality(DOMAIN qc.cache) = 1
    /\ res.key \notin DOMAIN qc.cache
    /\ Len(qc.access_times) = 1

\* The times a store of the proxy went from not connected to connected.
StoreConnections ==
    LET RECURSIVE Sum(_)
        Sum(i) == IF i = 0 THEN 0 ELSE services[i].connections + Sum(i - 1)
    IN Sum(Len(services))

\* C34: between the calls of a single client, connection_count is the number
\* of times the store went from not connected to connected: a connect() of a
\* connected proxy and a failed connect() count nothing.
C34_ConnectionCountIsConnections ==
    pc[1] = "idle" => metrics.connection_count = StoreConnections

\* The counters of the collector when the call of thread t began.
MetricsAtCall(t) == IF pc[t] = "idle" THEN metrics ELSE loc[t].metrics0

\* C33: the calls of a single client are counted one by one: a call adds one
\* to cache_hits + cache_misses exactly when it is an execute_query that
\* passed the permission check, it adds to query_count the store executions
\* it made when it returns their result, and so it adds no more to
\* query_count than it adds to cache_misses, plus one for an approved
\* execute_update.
C33_MetricsAccounting ==
    [][\A t \in Threads :
        CallEnds(t) =>
            LET m0 == MetricsAtCall(t)
                op == ret'[t].op
                approved == ret'[t].kind # "PermissionError"
                lookups == (metrics'.cache_hits + metrics'.cache_misses)
                                - (m0.cache_hits + m0.cache_misses)
                queries == metrics'.query_count - m0.query_count
            IN /\ lookups = IF op = "execute_query" /\ approved THEN 1 ELSE 0
               /\ queries = IF pc[t] # "idle" /\ ret'[t].kind = "ok"
                            THEN loc[t].executes ELSE 0
               /\ queries <= (metrics'.cache_misses - m0.cache_misses)
                                + (IF op = "execute_update" /\ approved THEN 1 ELSE 0)]_vars

\* A reader missed, hit, and was refused an update: one hit, one miss and one
\* query are counted.
C33_Witness ==
    /\ pc[1] = "idle"
    /\ ret[1].op = "execute_update"
    /\ ret[1].kind = "PermissionError"
    /\ metrics.cache_hits = 1
    /\ metrics.cache_misses = 1
    /\ metrics.query_count = 1

C31_NoDeadlock ==
    /\ [](\A t \in Threads :
            pc[t] = "l_run" =>
                /\ Len(loc[t].held) <= 1
                /\ (loc[t].plan # << >> /\ Head(loc[t].plan).do = "store") =>
                        loc[t].held = << >>)
    /\ \A t \in Threads : (pc[t] = "l_run") ~> (pc[t] = "idle")

\* One thread holds the lock of the cache and the other waits for it.
C31_Witness ==
    /\ pc[1] = "l_run"
    /\ pc[2] = "l_run"
    /\ loc[1].held = <<"cache">>
    /\ loc[2].held = << >>
    /\ loc[2].plan # << >>
    /\ Head(loc[2].plan) = [lock |-> "cache", do |-> "acquire"]

\* A step of the editor that is a call of the operation op.
EditorStep(op) == editor' # editor /\ editor'.last.op = op

\* C35: when no execute_command has raised, undo() gives the document the
\* content it had before the last command that is not undone, redo() gives
\* it the content it had after the command it executes again, and the
\* content is the one after the command at the current position (the empty
\* document when all are undone), so that k undos and k redos change nothing.
C35_UndoRedoRoundTrip ==
    [][editor.failed = 0 /\ editor'.failed = 0 =>
        /\ (EditorStep("undo") /\ editor.current_position >= 0) =>
                /\ editor'.last.value = "True"
                /\ editor'.content = editor.before[editor.current_position + 1]
        /\ (EditorStep("redo")
                /\ editor.current_position < Len(editor.command_history) - 1) =>
                /\ editor'.last.value = "True"
                /\ editor'.content = editor.after[editor.current_position + 2]
        /\ editor'.content = IF editor'.current_position = -1 THEN << >>
                             ELSE editor'.after[editor'.current_position + 1]]_vars

\* C36: the current position is from -1 to the last index of the history,
\* the commands up to it are executed and those after it are not; undo
\* returns False exactly at position -1 and redo exactly at the last index;
\* execute_command keeps the commands up to the current position and nothing
\* after them but the command it adds.
C36_HistoryInvariant ==
    /\ [](/\ -1 <= editor.current_position
          /\ editor.current_position <= Len(editor.command_history) - 1
          /\ \A i \in 1..Len(editor.command_history) :
                editor.command_history[i].executed <=> i <= editor.current_position + 1)
    /\ [][/\ EditorStep("undo") =>
                (editor'.last.value = "False" <=> editor.current_position = -1)
          /\ EditorStep("redo") =>
                (editor'.last.value = "False"
                    <=> editor.current_position = Len(editor.command_history) - 1)
          /\ EditorStep("execute_command") =>
                /\ Len(editor'.command_history) <= editor.current_position + 2
                /\ editor'.current_position = Len(editor'.command_history) - 1
                /\ SubSeq(editor'.command_history, 1, editor.current_position + 1)
                        = SubSeq(editor.command_history, 1, editor.current_position + 1)]_vars

\* C37: an execute_command that raises leaves the content of the document,
\* the command history and the current position as they were.
C37_FailedCommandChangesNothing ==
    [][(EditorStep("execute_command") /\ editor'.last.value = "raised") =>
            /\ editor'.content = editor.content
            /\ editor'.command_history = editor.command_history
            /\ editor'.current_position = editor.current_position]_vars
====
